---- MODULE Spec2Model ----
(***************************************************************************)
(* USU-Peduli: the moderation ledger (pg_data.py section 12/13 and the     *)
(* /api admin routes of app_postgres.py), the TTL-cached spreadsheet reads *)
(* and the check-in / map read paths of app_postgres.py.                   *)
(***************************************************************************)
EXTENDS Integers, Sequences, FiniteSets, TLC

\* ------------------------------------------------------------------ bounds
\* number of moderation requests a behaviour may have answered with success
MaxOps == 2
\* number of clock advances in a behaviour of the cached reads
MaxTicks == 4
\* number of check-ins stored in a behaviour
MaxCheckins == 1
\* number of half-day clock advances in a behaviour of the map
MaxHalfDays == 2
\* assessments submitted
MaxAsesmen == 1
\* facilities submitted
MaxLokasi == 1
\* toggles that went through before the check-ins are looked at
MaxToggles == 1

\* ------------------------------------------------------------- plain values
\* SQL NULL / Python None for text columns
NULL == "NULL"
\* Python None for an integer target_id (bigserial ids start at 1)
NoId == 0
\* int() or float() raising ValueError
NoInt == -1

\* whole degrees of latitude and longitude
LatRange == 1..4
LonRange == 97..100

\* float(str(v).strip()) of a form value: the number, NoInt when it raises
FloatOfNumeral ==
    [v \in {ToString(n) : n \in LatRange \cup LonRange} |->
        CHOOSE n \in LatRange \cup LonRange : ToString(n) = v]

ParseFloat(v) == IF v \in DOMAIN FloatOfNumeral THEN FloatOfNumeral[v] ELSE NoInt

\* _to_float
to_float(v) == ParseFloat(v)

VARIABLES
    session,              \* flask session: logged_in, is_admin
    logistik_permintaan,  \* public.logistik_permintaan: id -> row
    asesmen,              \* public.asesmen_<kind>: kind -> (id -> row)
    data_lokasi,          \* public.data_lokasi: id_lokasi -> row
    admin_action_log,     \* public.admin_action_log, in insertion order
    resp,                 \* the response of the last request handled
    nOk,                  \* moderation requests answered {"success": true}
    nAuditFail            \* of those, the ones whose audit insert returned False

ledgerVars == <<session, logistik_permintaan, asesmen, data_lokasi,
                admin_action_log, resp, nOk, nAuditFail>>

\* the cached spreadsheet reads of app_postgres.py
VARIABLES
    now,               \* time.time()
    sheet_rekap,       \* worksheet "rekapitulasi_data_kabkota": raw rows
    sheet_distribusi,  \* worksheet "pembersihan_data": raw rows
    CACHE_REKAP,       \* data, timestamp
    CACHE_DISTRIBUSI,  \* data, timestamp
    answer,            \* the last cached read: fn, value, how
    last_read,         \* fn -> time and value of the last read of fn
    last_fetch         \* fn -> time and value of the last fetch of fn that succeeded

cacheVars == <<now, sheet_rekap, sheet_distribusi, CACHE_REKAP, CACHE_DISTRIBUSI,
               answer, last_read, last_fetch>>

\* check-ins and the map
VARIABLES
    lokasi_relawan,    \* public.lokasi_relawan, in insertion order
    kabkota_geojson,   \* static/data/kabkota_sumut.json: exists, mtime, features
    out                \* what the last check-in or map request did and showed

mapVars == <<lokasi_relawan, kabkota_geojson, out>>

\* requests that run side by side
VARIABLES
    inflight           \* worker -> where its request stands and its locals

vars == <<ledgerVars, cacheVars, mapVars, inflight>>

\* what a handler returns: the HTTP status and the flash category of a form
\* route ("none" for a JSON route); and, for a moderation route, what became
\* of the audit insert, why the request ended as it did ("ok", "gate",
\* "validation", "store", "notfound"), whether the row it named was in the
\* store ("present", "missing"; "none" when it named no parsable id), the
\* value it asked for ("none" when the body was not read or was incomplete)
\* and the id of an accepted change
FullResp(op, code, flash, audit, why, target, id, val) ==
    [op |-> op, code |-> code, flash |-> flash, audit |-> audit,
     why |-> why, target |-> target, id |-> id, val |-> val]

Resp(op, code, flash, audit) ==
    FullResp(op, code, flash, audit, "none", "none", "none", "none")

\* ------------------------------------------------------------ data_relawan
\* rows of public.data_relawan as pg_get_relawan_list returns them
pg_get_relawan_list ==
    << [id_relawan |-> "R0001", is_admin |-> TRUE],
       [id_relawan |-> "R0002", is_admin |-> FALSE] >>

Relawan == { pg_get_relawan_list[i] : i \in DOMAIN pg_get_relawan_list }

\* ------------------------------------------------------------------ login
login_session(matched, codeOk) ==
    IF codeOk
    THEN [logged_in |-> TRUE, id_relawan |-> matched.id_relawan,
          is_admin |-> matched.is_admin]
    ELSE session

login ==
    /\ \E matched \in Relawan, codeOk \in BOOLEAN :
          /\ session' = login_session(matched, codeOk)
          /\ resp' = Resp("login", 302, IF codeOk THEN "success" ELSE "danger", "none")
    /\ UNCHANGED <<logistik_permintaan, asesmen, data_lokasi, admin_action_log,
                   nOk, nAuditFail>>

logout ==
    /\ session' = [logged_in |-> FALSE, id_relawan |-> "UNKNOWN", is_admin |-> FALSE]
    /\ resp' = Resp("logout", 302, "success", "none")
    /\ UNCHANGED <<logistik_permintaan, asesmen, data_lokasi, admin_action_log,
                   nOk, nAuditFail>>

\* as AdminGate, without the test of the admin flag
AdminGate_login_only(s) == IF ~s.logged_in THEN 401 ELSE 0

\* the login / admin gate every /api admin route starts with: 401, 403 or 0
AdminGate(s) ==
    IF ~s.logged_in THEN 401
    ELSE IF ~s.is_admin THEN 403
    ELSE 0

\* ------------------------------------------------------- admin_action_log
\* the two INSERTs of pg_insert_admin_action_log (with target_ref, without):
\* which of them the store accepts
AuditFaults == { <<TRUE, TRUE>>, <<FALSE, TRUE>>, <<FALSE, FALSE>> }

\* which store calls of one pg_data moderation call answer, as
\* <<SELECT, UPDATE, INSERT with target_ref, INSERT without>>: every call
\* answers, or one of SELECT / UPDATE raises, or the audit INSERTs fail
StoreFaults ==
    { <<TRUE, TRUE, f[1], f[2]>> : f \in AuditFaults }
        \cup { <<FALSE, TRUE, TRUE, TRUE>>, <<TRUE, FALSE, TRUE, TRUE>> }

\* the same for a pg_data call that issues no SELECT
UpdateFaults == { f \in StoreFaults : f[1] }

\* as pg_insert_admin_action_log, with the second INSERT run after the first
\* succeeded too
pg_insert_admin_action_log_both(log, entry, sqlNewOk, sqlOldOk) ==
    LET l1 == IF sqlNewOk THEN Append(log, entry) ELSE log
        l2 == IF sqlOldOk THEN Append(l1, [entry EXCEPT !.target_ref = NULL]) ELSE l1
    IN  [log |-> l2, ret |-> sqlNewOk \/ sqlOldOk]

\* pg_insert_admin_action_log: INSERT with target_ref first, the older column
\* list second; returns False, never raises, when both INSERTs fail.
pg_insert_admin_action_log(log, entry, sqlNewOk, sqlOldOk) ==
    IF sqlNewOk
    THEN [log |-> Append(log, entry), ret |-> TRUE]
    ELSE IF sqlOldOk
         THEN [log |-> Append(log, [entry EXCEPT !.target_ref = NULL]), ret |-> TRUE]
         ELSE [log |-> log, ret |-> FALSE]

AuditTag(ret) == IF ret THEN "written" ELSE "failed"

\* ----------------------------------------------------- logistik_permintaan
\* the bigserial ids the table hands out
PermintaanIds == {1}

\* pg_insert_logistik_permintaan: one INSERT; a missing status becomes
\* "Draft", latitude and longitude pass through _to_float and are stored as
\* they come out of it, NULL included
pg_insert_logistik_permintaan(tbl, data) ==
    LET id == Cardinality(DOMAIN tbl) + 1
        st == IF data.status_permintaan = "" THEN "Draft" ELSE data.status_permintaan
    IN  [i \in (DOMAIN tbl) \cup {id} |->
            IF i = id THEN [status_permintaan |-> st,
                            latitude |-> to_float(data.latitude),
                            longitude |-> to_float(data.longitude)]
            ELSE tbl[i]]

\* the coordinates a form carries: none when the browser gave no position,
\* a latitude that is no number, or both
CoordInputs == { <<"", "">>, <<"abc", "98">>, <<"2", "98">> }

\* submit_permintaan sets status_permintaan = "Usulan" and passes the form's
\* latitude and longitude on unchecked
submit_permintaan ==
    /\ session.logged_in
    /\ DOMAIN logistik_permintaan # PermintaanIds
    /\ \E dbOk \in BOOLEAN, c \in CoordInputs :
          IF dbOk
          THEN /\ logistik_permintaan' =
                      pg_insert_logistik_permintaan(logistik_permintaan,
                          [status_permintaan |-> "Usulan",
                           latitude |-> c[1], longitude |-> c[2]])
               /\ resp' = Resp("submit_permintaan", 302, "success", "none")
          ELSE /\ UNCHANGED logistik_permintaan
               /\ resp' = Resp("submit_permintaan", 302, "danger", "none")
    /\ UNCHANGED <<session, asesmen, data_lokasi, admin_action_log,
                   nOk, nAuditFail>>

\* the ids a request may name: the existing ones and one past them
IdSpace == 1..(Cardinality(PermintaanIds) + 1)

\* int(str(id_raw).strip()): the decimal ids the model uses, else ValueError
IntOfNumeral ==
    [s \in {ToString(i) : i \in IdSpace} |-> CHOOSE i \in IdSpace : ToString(i) = s]

ParseInt(s) == IF s \in DOMAIN IntOfNumeral THEN IntOfNumeral[s] ELSE NoInt

\* the result of a pg_data moderation call: ret is "true", "false", "invalid"
\* (ValueError raised by its own validation) or "raise" (the store raised)
PgResult(ret, tbl, log, audit) ==
    [ret |-> ret, tbl |-> tbl, log |-> log, audit |-> audit]

\* as pg_update_logistik_permintaan_status, with the audit insert outside the
\* try/except and its failure raised to the caller
pg_update_logistik_permintaan_status_strict(tbl, log, id, status_new, selOk, updOk, sqlNewOk, sqlOldOk) ==
    IF ~selOk THEN PgResult("raise", tbl, log, "none")
    ELSE IF id \notin DOMAIN tbl THEN PgResult("false", tbl, log, "none")
    ELSE IF ~updOk THEN PgResult("raise", tbl, log, "none")
    ELSE IF ~(sqlNewOk \/ sqlOldOk)
         THEN PgResult("raise", [tbl EXCEPT ![id].status_permintaan = status_new],
                       log, "failed")
    ELSE PgResult("true", [tbl EXCEPT ![id].status_permintaan = status_new],
                  Append(log,
                     [action |-> "CHANGE_STATUS_LOGISTIK",
                      target_kind |-> "permintaan_logistik",
                      target_id |-> id,
                      target_ref |-> NULL,
                      payload |-> [kind |-> "status_logistik", id |-> id,
                                   old |-> tbl[id].status_permintaan,
                                   new |-> status_new]]),
                  "written")

\* as pg_update_logistik_permintaan_status, with the old status read after
\* the UPDATE
pg_update_logistik_permintaan_status_late(tbl, log, id, status_new, selOk, updOk, sqlNewOk, sqlOldOk) ==
    IF ~selOk THEN PgResult("raise", tbl, log, "none")
    ELSE IF id \notin DOMAIN tbl THEN PgResult("false", tbl, log, "none")
    ELSE IF ~updOk THEN PgResult("raise", tbl, log, "none")
    ELSE LET a == pg_insert_admin_action_log(log,
                     [action |-> "CHANGE_STATUS_LOGISTIK",
                      target_kind |-> "permintaan_logistik",
                      target_id |-> id,
                      target_ref |-> NULL,
                      payload |-> [kind |-> "status_logistik", id |-> id,
                                   old |-> status_new, new |-> status_new]],
                     sqlNewOk, sqlOldOk)
         IN  PgResult("true", [tbl EXCEPT ![id].status_permintaan = status_new],
                      a.log, AuditTag(a.ret))

\* pg_update_logistik_permintaan_status: SELECT the old status, UPDATE ..
\* RETURNING id, then insert the audit entry inside try/except.
pg_update_logistik_permintaan_status(tbl, log, id, status_new, selOk, updOk, sqlNewOk, sqlOldOk) ==
    IF ~selOk THEN PgResult("raise", tbl, log, "none")
    ELSE IF id \notin DOMAIN tbl THEN PgResult("false", tbl, log, "none")
    ELSE IF ~updOk THEN PgResult("raise", tbl, log, "none")
    ELSE LET old_status == tbl[id].status_permintaan
             a == pg_insert_admin_action_log(log,
                     [action |-> "CHANGE_STATUS_LOGISTIK",
                      target_kind |-> "permintaan_logistik",
                      target_id |-> id,
                      target_ref |-> NULL,
                      payload |-> [kind |-> "status_logistik", id |-> id,
                                   old |-> old_status, new |-> status_new]],
                     sqlNewOk, sqlOldOk)
         IN  PgResult("true", [tbl EXCEPT ![id].status_permintaan = status_new],
                      a.log, AuditTag(a.ret))

\* the allowed set of api_update_permintaan_status
AllowedStatus == {"Usulan", "Draft", "Diproses", "Dikirim", "Diterima", "Ditolak"}

\* the status and id values a request body may carry
StatusInputs == {"Diproses", "Diterima", "Draft", "Selesai", ""}
IdRawInputs == {ToString(i) : i \in IdSpace} \cup {"x"}

\* the status code a moderation handler answers with, by pg_data result
ModCode(ret, raiseCode) ==
    CASE ret = "true" -> 200
      [] ret = "false" -> 404
      [] OTHER -> raiseCode

Why(ret) ==
    CASE ret = "true" -> "ok"
      [] ret = "false" -> "notfound"
      [] ret = "invalid" -> "validation"
      [] OTHER -> "store"

\* whether the row a request names is in the table
TargetOf(tbl, id) == IF id \in DOMAIN tbl THEN "present" ELSE "missing"

\* the answer built from the result r of a pg_data moderation call; the
\* handler's except clause answers raiseCode
ModResp(op, r, raiseCode, target, id, val) ==
    FullResp(op, ModCode(r.ret, raiseCode), "none", r.audit, Why(r.ret), target,
             IF r.ret = "true" THEN id ELSE "none", val)

\* a request refused before pg_data is called
Refuse(op, code, why, target, val) ==
    /\ resp' = FullResp(op, code, "none", "none", why, target, "none", val)
    /\ UNCHANGED <<logistik_permintaan, asesmen, data_lokasi, admin_action_log,
                   nOk, nAuditFail>>

\* bookkeeping of the answers given
Count(code, audit) ==
    /\ nOk' = IF code = 200 THEN nOk + 1 ELSE nOk
    /\ nAuditFail' = IF audit = "failed" THEN nAuditFail + 1 ELSE nAuditFail

\* as permintaan_status_check, without the test of the status
permintaan_status_check_any(id_raw, status_new) ==
    IF ParseInt(id_raw) = NoInt THEN 400 ELSE 0

\* validation of the body in api_update_permintaan_status: 400 or 0
permintaan_status_check(id_raw, status_new) ==
    IF status_new \notin AllowedStatus THEN 400
    ELSE IF ParseInt(id_raw) = NoInt THEN 400
    ELSE 0

api_update_permintaan_status ==
    /\ nOk < MaxOps
    /\ LET op == "update_permintaan_status" IN
       IF AdminGate(session) # 0 THEN Refuse(op, AdminGate(session), "gate", "none", "none")
       ELSE \E id_raw \in IdRawInputs, status_new \in StatusInputs :
          IF permintaan_status_check(id_raw, status_new) # 0
          THEN Refuse(op, permintaan_status_check(id_raw, status_new), "validation",
                      IF ParseInt(id_raw) = NoInt THEN "none"
                      ELSE TargetOf(logistik_permintaan, ParseInt(id_raw)),
                      status_new)
          ELSE \E f \in StoreFaults :
                 LET r == pg_update_logistik_permintaan_status(
                            logistik_permintaan, admin_action_log,
                            ParseInt(id_raw), status_new, f[1], f[2], f[3], f[4])
                 IN  /\ logistik_permintaan' = r.tbl
                     /\ admin_action_log' = r.log
                     /\ resp' = ModResp(op, r, 500,
                                   TargetOf(logistik_permintaan, ParseInt(id_raw)),
                                   id_raw, status_new)
                     /\ Count(ModCode(r.ret, 500), r.audit)
                     /\ UNCHANGED <<asesmen, data_lokasi>>
    /\ UNCHANGED session

\* ---------------------------------------------------------------- asesmen
\* kind_map of pg_set_asesmen_active
AsesmenKinds == {"kesehatan", "pendidikan", "psikososial", "infrastruktur",
                 "wash", "kondisi"}

\* (kind or "").strip().lower() on the kinds a request may carry
KindKey(kind) ==
    CASE kind = "Kesehatan " -> "kesehatan"
      [] OTHER -> kind

KindInputs == {"Kesehatan ", "gizi", ""}

\* a boolean column value as stored: "true", "false" or NULL
Bool3(b) == IF b THEN "true" ELSE "false"

\* the is_active values a payload may carry: absent, a JSON boolean, strings
IsActiveInputs == {"absent", "json:false", "str:on"}

\* normalisation of is_active_raw in api_set_asesmen_active / api_set_lokasi_active
IsActiveVal(raw) ==
    CASE raw = "json:true" -> TRUE
      [] raw = "json:false" -> FALSE
      [] raw \in {"str:1", "str:true", "str:yes", "str:y", "str:on"} -> TRUE
      [] OTHER -> FALSE

\* pg_set_asesmen_active: UPDATE <kind table> SET is_active .. RETURNING id,
\* then the audit insert (its return value is dropped).
pg_set_asesmen_active(tbl, log, kind, id_raw, is_active, updOk, sqlNewOk, sqlOldOk) ==
    LET kind_key == KindKey(kind)
        aid == ParseInt(id_raw)
    IN  IF kind_key \notin AsesmenKinds THEN PgResult("invalid", tbl, log, "none")
        ELSE IF aid = NoInt THEN PgResult("invalid", tbl, log, "none")
        ELSE IF ~updOk THEN PgResult("raise", tbl, log, "none")
        ELSE IF aid \notin DOMAIN tbl[kind_key] THEN PgResult("false", tbl, log, "none")
        ELSE LET a == pg_insert_admin_action_log(log,
                         [action |-> IF is_active THEN "ACTIVATE_ASESMEN"
                                     ELSE "DEACTIVATE_ASESMEN",
                          target_kind |-> kind_key,
                          target_id |-> aid,
                          target_ref |-> NULL,
                          payload |-> [kind |-> kind_key, id |-> aid,
                                       is_active |-> is_active]],
                         sqlNewOk, sqlOldOk)
             IN  PgResult("true",
                          [tbl EXCEPT ![kind_key][aid].is_active = Bool3(is_active)],
                          a.log, AuditTag(a.ret))

\* whether the assessment row (kind, id) a request names is in the store
AsesmenTarget(tbl, kind, id_raw) ==
    IF KindKey(kind) \notin AsesmenKinds \/ ParseInt(id_raw) = NoInt
    THEN "none"
    ELSE TargetOf(tbl[KindKey(kind)], ParseInt(id_raw))

\* the call of pg_set_asesmen_active and the answer built from its result
SetAsesmenActive(op, kind, id_raw, is_active) ==
    \E f \in UpdateFaults :
       LET r == pg_set_asesmen_active(asesmen, admin_action_log, kind, id_raw,
                                      is_active, f[2], f[3], f[4])
       IN  /\ asesmen' = r.tbl
           /\ admin_action_log' = r.log
           /\ resp' = ModResp(op, r, 400, AsesmenTarget(asesmen, kind, id_raw),
                              id_raw, Bool3(is_active))
           /\ Count(ModCode(r.ret, 400), r.audit)
           /\ UNCHANGED <<logistik_permintaan, data_lokasi>>

api_set_asesmen_active ==
    /\ nOk < MaxOps
    /\ LET op == "set_asesmen_active" IN
       IF AdminGate(session) # 0 THEN Refuse(op, AdminGate(session), "gate", "none", "none")
       ELSE \E kind \in KindInputs, id_raw \in IdRawInputs \cup {"absent"},
               raw \in IsActiveInputs :
          IF kind = "" \/ id_raw = "absent" \/ raw = "absent"
          THEN Refuse(op, 400, "validation", "none", "none")
          ELSE SetAsesmenActive(op, kind, id_raw, IsActiveVal(raw))
    /\ UNCHANGED session

api_deactivate_asesmen ==
    /\ nOk < MaxOps
    /\ LET op == "deactivate_asesmen" IN
       IF AdminGate(session) # 0 THEN Refuse(op, AdminGate(session), "gate", "none", "none")
       ELSE \E kind \in KindInputs, id_raw \in IdRawInputs \cup {"absent"} :
          IF kind = "" \/ id_raw = "absent"
          THEN Refuse(op, 400, "validation", "none", "none")
          ELSE SetAsesmenActive(op, kind, id_raw, FALSE)
    /\ UNCHANGED session

\* ------------------------------------------------------------ data_lokasi
\* public.ref_jenis_lokasi as _pg_ref_list returns it; an unreadable table
\* yields the empty list
RefJenis == {"Posko Pengungsian", "Gudang Logistik"}
pg_get_ref_jenis_lokasi(refOk) == IF refOk THEN RefJenis ELSE {}

JenisInputs == {"Gudang Logistik", "Warung", ""}
IdLokasiInputs == {"P-KA001", "P-KA999", ""}

\* as pg_set_data_lokasi_active, with the audit insert not guarded by ok
pg_set_data_lokasi_active_log_always(tbl, log, sid, is_active, updOk, sqlNewOk, sqlOldOk) ==
    IF sid = "" THEN PgResult("invalid", tbl, log, "none")
    ELSE IF ~updOk THEN PgResult("raise", tbl, log, "none")
    ELSE LET a == pg_insert_admin_action_log(log,
                     [action |-> IF is_active THEN "ACTIVATE_LOKASI"
                                 ELSE "DEACTIVATE_LOKASI",
                      target_kind |-> "data_lokasi",
                      target_id |-> NoId,
                      target_ref |-> sid,
                      payload |-> [id_lokasi |-> sid, is_active |-> is_active]],
                     sqlNewOk, sqlOldOk)
         IN  IF sid \notin DOMAIN tbl
             THEN PgResult("false", tbl, a.log, "none")
             ELSE PgResult("true", [tbl EXCEPT ![sid].is_active = Bool3(is_active)],
                           a.log, AuditTag(a.ret))

\* pg_set_data_lokasi_active
pg_set_data_lokasi_active(tbl, log, sid, is_active, updOk, sqlNewOk, sqlOldOk) ==
    IF sid = "" THEN PgResult("invalid", tbl, log, "none")
    ELSE IF ~updOk THEN PgResult("raise", tbl, log, "none")
    ELSE IF sid \notin DOMAIN tbl THEN PgResult("false", tbl, log, "none")
    ELSE LET a == pg_insert_admin_action_log(log,
                     [action |-> IF is_active THEN "ACTIVATE_LOKASI"
                                 ELSE "DEACTIVATE_LOKASI",
                      target_kind |-> "data_lokasi",
                      target_id |-> NoId,
                      target_ref |-> sid,
                      payload |-> [id_lokasi |-> sid, is_active |-> is_active]],
                     sqlNewOk, sqlOldOk)
         IN  PgResult("true", [tbl EXCEPT ![sid].is_active = Bool3(is_active)],
                      a.log, AuditTag(a.ret))

\* as pg_update_data_lokasi_jenis, without the check against the reference
\* list
pg_update_data_lokasi_jenis_unchecked(tbl, log, sid, new_jenis, refOk, selOk, updOk, sqlNewOk, sqlOldOk) ==
    IF sid = "" \/ new_jenis = "" THEN PgResult("invalid", tbl, log, "none")
    ELSE IF ~updOk THEN PgResult("raise", tbl, log, "none")
    ELSE IF sid \notin DOMAIN tbl THEN PgResult("false", tbl, log, "none")
    ELSE LET a == pg_insert_admin_action_log(log,
                     [action |-> "UPDATE_JENIS_LOKASI",
                      target_kind |-> "data_lokasi",
                      target_id |-> NoId,
                      target_ref |-> sid,
                      payload |-> [id_lokasi |-> sid,
                                   old |-> IF selOk THEN tbl[sid].jenis_lokasi ELSE NULL,
                                   new |-> new_jenis]],
                     sqlNewOk, sqlOldOk)
         IN  PgResult("true", [tbl EXCEPT ![sid].jenis_lokasi = new_jenis],
                      a.log, AuditTag(a.ret))

\* pg_update_data_lokasi_jenis: the new type is checked against the reference
\* list only when that list is non-empty; the old type is read for the log
\* (None when that SELECT raises).
pg_update_data_lokasi_jenis(tbl, log, sid, new_jenis, refOk, selOk, updOk, sqlNewOk, sqlOldOk) ==
    LET allowed == pg_get_ref_jenis_lokasi(refOk)
    IN  IF sid = "" \/ new_jenis = "" THEN PgResult("invalid", tbl, log, "none")
        ELSE IF allowed # {} /\ new_jenis \notin allowed
             THEN PgResult("invalid", tbl, log, "none")
        ELSE IF ~updOk THEN PgResult("raise", tbl, log, "none")
        ELSE IF sid \notin DOMAIN tbl THEN PgResult("false", tbl, log, "none")
        ELSE LET old_jenis == IF selOk THEN tbl[sid].jenis_lokasi ELSE NULL
                 a == pg_insert_admin_action_log(log,
                         [action |-> "UPDATE_JENIS_LOKASI",
                          target_kind |-> "data_lokasi",
                          target_id |-> NoId,
                          target_ref |-> sid,
                          payload |-> [id_lokasi |-> sid, old |-> old_jenis,
                                       new |-> new_jenis]],
                         sqlNewOk, sqlOldOk)
             IN  PgResult("true", [tbl EXCEPT ![sid].jenis_lokasi = new_jenis],
                          a.log, AuditTag(a.ret))

\* the answer built from the result of a data_lokasi moderation call
LokasiAnswer(op, r, sid, val) ==
    /\ data_lokasi' = r.tbl
    /\ admin_action_log' = r.log
    /\ resp' = ModResp(op, r, 400, TargetOf(data_lokasi, sid), sid, val)
    /\ Count(ModCode(r.ret, 400), r.audit)
    /\ UNCHANGED <<logistik_permintaan, asesmen>>

api_set_lokasi_active ==
    /\ nOk < MaxOps
    /\ LET op == "set_lokasi_active" IN
       IF AdminGate(session) # 0 THEN Refuse(op, AdminGate(session), "gate", "none", "none")
       ELSE \E sid \in IdLokasiInputs, raw \in IsActiveInputs :
          IF sid = "" \/ raw = "absent"
          THEN Refuse(op, 400, "validation", "none", "none")
          ELSE \E f \in UpdateFaults :
                 LokasiAnswer(op,
                    pg_set_data_lokasi_active(data_lokasi, admin_action_log, sid,
                        IsActiveVal(raw), f[2], f[3], f[4]),
                    sid, Bool3(IsActiveVal(raw)))
    /\ UNCHANGED session

\* api_update_lokasi_jenis; out keeps the reference list as the request
\* read it
api_update_lokasi_jenis ==
    /\ nOk < MaxOps
    /\ LET op == "update_lokasi_jenis" IN
       IF AdminGate(session) # 0
       THEN /\ Refuse(op, AdminGate(session), "gate", "none", "none")
            /\ out' = [op |-> "none"]
       ELSE \E sid \in IdLokasiInputs, jenis \in JenisInputs :
          IF sid = "" \/ jenis = ""
          THEN /\ Refuse(op, 400, "validation", "none", "none")
               /\ out' = [op |-> "none"]
          ELSE \E refOk \in BOOLEAN, f \in StoreFaults :
                 /\ LokasiAnswer(op,
                       pg_update_data_lokasi_jenis(data_lokasi, admin_action_log, sid,
                           jenis, refOk, f[1], f[2], f[3], f[4]),
                       sid, jenis)
                 /\ out' = [op |-> op, allowed |-> pg_get_ref_jenis_lokasi(refOk)]
    /\ UNCHANGED session

\* ------------------------------------------------- the moderation ledger
\* rows present before the first request: one health assessment whose
\* is_active was never set, and two facilities
InitAsesmen ==
    [k \in AsesmenKinds |->
        IF k = "kesehatan"
        THEN (1 :> [is_active |-> NULL, latitude |-> 2, longitude |-> 98,
                    skor |-> [num |-> 180, den |-> 300, low |-> FALSE],
                    status |-> "Waspada"])
        ELSE <<>>]

\* a row of public.data_lokasi; latitude and longitude in degrees, NoInt for NULL
LokasiRow(jenis, lat, lon, waktu) ==
    [jenis_lokasi |-> jenis, latitude |-> lat, longitude |-> lon, waktu |-> waktu,
     is_active |-> "true"]

InitDataLokasi ==
    [id \in {"P-KA001", "P-MD001", "G-KA001", "G-MD001"} |->
        CASE id = "P-KA001" -> LokasiRow("Posko Pengungsian", 4, 99, 1)
          [] id = "P-MD001" -> LokasiRow("Posko Pengungsian", 3, 98, 2)
          [] id = "G-KA001" -> LokasiRow("Gudang Logistik", 2, 98, 3)
          [] OTHER -> LokasiRow("Gudang Logistik", NoInt, NoInt, 4)]

InitLedger ==
    /\ session = [logged_in |-> FALSE, id_relawan |-> "UNKNOWN", is_admin |-> FALSE]
    /\ logistik_permintaan = <<>>
    /\ asesmen = InitAsesmen
    /\ data_lokasi = InitDataLokasi
    /\ admin_action_log = <<>>
    /\ resp = Resp("none", 0, "none", "none")
    /\ nOk = 0
    /\ nAuditFail = 0



\* ------------------------------------------------------------------ claims
ModOps == {"update_permintaan_status", "set_asesmen_active", "deactivate_asesmen",
           "set_lokasi_active", "update_lokasi_jenis"}

\* the rows of the three moderated tables
Tables == <<logistik_permintaan, asesmen, data_lokasi>>

Last(q) == q[Len(q)]

\* the change an accepted moderation request asked for is what the store holds
AppliedChange ==
    /\ resp.code = 200
    /\ CASE resp.op = "update_permintaan_status" ->
               logistik_permintaan[ParseInt(resp.id)].status_permintaan = resp.val
         [] resp.op \in {"set_asesmen_active", "deactivate_asesmen"} ->
               asesmen["kesehatan"][ParseInt(resp.id)].is_active = resp.val
         [] resp.op = "set_lokasi_active" ->
               data_lokasi[resp.id].is_active = resp.val
         [] resp.op = "update_lokasi_jenis" ->
               data_lokasi[resp.id].jenis_lokasi = resp.val
         [] OTHER -> FALSE

\* C1 as stated: the number of audit entries always equals the number of
\* moderation operations that reported success.
C1_AuditEntriesEqualSuccesses ==
    Len(admin_action_log) = nOk

\* C1 amended: every moderation operation that reported success appended
\* exactly one audit entry unless its audit write failed, in which case it
\* appended none, and no other operation appended any: the number of audit
\* entries equals the number of successes less those whose audit write failed.
C1_AuditEntriesEqualLoggedSuccesses ==
    Len(admin_action_log) = nOk - nAuditFail

C1_Witness ==
    /\ nOk = 2
    /\ nAuditFail = 1
    /\ Len(admin_action_log) = 1

\* C2 as stated, for requests whose store calls all answer: when the target
\* id does not exist the operation reports not-found, changes no row and
\* appends no audit entry.
C2_MissingTargetIsNotFound ==
    [][ (resp'.op \in ModOps /\ resp'.target = "missing" /\ resp'.why # "store")
        => /\ resp'.code = 404
           /\ Tables' = Tables
           /\ admin_action_log' = admin_action_log ]_vars

\* C2 amended: when the target id does not exist the operation never reports
\* success, changes no row and appends no audit entry; it reports not-found
\* unless the request fails the operation's validation (status, kind or type)
\* or a store call raises, which are reported instead.
C2_MissingTargetChangesNothing ==
    [][ (resp'.op \in ModOps /\ resp'.target = "missing")
        => /\ resp'.code # 200
           /\ resp'.audit = "none"
           /\ Tables' = Tables
           /\ admin_action_log' = admin_action_log
           /\ nOk' = nOk
           /\ (resp'.why \notin {"validation", "store"} => resp'.code = 404) ]_vars

C2_Witness ==
    /\ resp.op = "update_lokasi_jenis"
    /\ resp.target = "missing"
    /\ resp.code = 404
    /\ Len(admin_action_log) >= 1

\* C3: when the audit-log write of a moderation operation fails, the change
\* it made stays applied and the operation reports success.
C3_AuditFailureKeepsChange ==
    (resp.op \in ModOps /\ resp.audit = "failed")
        => /\ resp.code = 200
           /\ resp.why = "ok"
           /\ AppliedChange

C3_Witness ==
    /\ resp.op = "update_permintaan_status"
    /\ resp.audit = "failed"
    /\ resp.val = "Diterima"
    /\ admin_action_log = <<>>

\* the five lifecycle values of the data model:
\* Proposed, Processing, Shipped, Received, Rejected
Lifecycle == {"Usulan", "Diproses", "Dikirim", "Diterima", "Ditolak"}

\* the lifecycle values and "Draft"
LifecycleOrDraft == Lifecycle \cup {"Draft"}

TransitionAsked ==
    /\ resp.op = "update_permintaan_status"
    /\ resp.target = "present"
    /\ resp.why \notin {"gate", "validation", "store"}

\* C5 as stated: such a transition is accepted whatever the two statuses are
\* and appends exactly one audit entry recording old = the status stored
\* before the call and new = the requested status.
C5_TransitionLogsOldNew ==
    [][ TransitionAsked'
        => /\ resp'.code = 200
           /\ Len(admin_action_log') = Len(admin_action_log) + 1
           /\ Last(admin_action_log').payload.old =
                 logistik_permintaan[ParseInt(resp'.id)].status_permintaan
           /\ Last(admin_action_log').payload.new = resp'.val ]_vars

\* C5 amended: such a transition is accepted whatever the two statuses are
\* and stores the requested status; when its audit write succeeds it appends
\* exactly one audit entry recording old = the status stored before the call
\* and new = the requested status, and when the audit write fails it appends
\* none.
C5_TransitionLogsOldNewIfWritten ==
    [][ TransitionAsked'
        => /\ resp'.code = 200
           /\ logistik_permintaan'[ParseInt(resp'.id)].status_permintaan = resp'.val
           /\ resp'.audit \in {"written", "failed"}
           /\ resp'.audit = "failed" => admin_action_log' = admin_action_log
           /\ resp'.audit = "written" =>
                 /\ Len(admin_action_log') = Len(admin_action_log) + 1
                 /\ SubSeq(admin_action_log', 1, Len(admin_action_log)) = admin_action_log
                 /\ Last(admin_action_log').action = "CHANGE_STATUS_LOGISTIK"
                 /\ Last(admin_action_log').payload.old =
                       logistik_permintaan[ParseInt(resp'.id)].status_permintaan
                 /\ Last(admin_action_log').payload.new = resp'.val ]_vars

\* a backward move, Received to Processing, accepted and logged
C5_Witness ==
    /\ resp.op = "update_permintaan_status"
    /\ resp.code = 200
    /\ resp.audit = "written"
    /\ Last(admin_action_log).payload.old = "Diterima"
    /\ Last(admin_action_log).payload.new = "Diproses"

\* ============================================================ cached reads
\* get_rekap_from_spreadsheet and get_logistik_keluar_grouped of
\* app_postgres.py. Text is a sequence of one-character strings.

\* the hit window of both caches, in seconds
TTL == 300

\* the clock advances by a third of the window
TickStep == TTL \div 3

\* str.lower() on the letters the sheets use
Lower(c) ==
    CASE c = "M" -> "m"
      [] c = "D" -> "d"
      [] OTHER -> c

LowerText(t) == [i \in 1..Len(t) |-> Lower(t[i])]

\* BULAN_INDO.get(bln_txt.lower(), '01') for the months the sheets use
BULAN_INDO(bln) ==
    CASE bln = <<"m", "e", "i">> -> <<"0", "5">>
      [] bln = <<"j", "u", "n", "i">> -> <<"0", "6">>
      [] OTHER -> <<"0", "1">>

\* str.zfill(2)
zfill2(t) == IF Len(t) < 2 THEN [i \in 1..(2 - Len(t)) |-> "0"] \o t ELSE t

\* convert_tanggal_indo_ke_iso; parts is tgl_str.split('-'), <<>> for ''
convert_tanggal_indo_ke_iso(parts) ==
    IF parts = <<>> THEN <<>>
    ELSE IF Len(parts) = 3
         THEN LET tgl == parts[1]
                  bln_kode == BULAN_INDO(LowerText(parts[2]))
                  thn == IF Len(parts[3]) = 2 THEN <<"2", "0">> \o parts[3]
                         ELSE parts[3]
              IN  thn \o <<"-">> \o bln_kode \o <<"-">> \o zfill2(tgl)
         ELSE <<>>

\* the numbers a sheet cell may hold
CellRange == 0..20

\* int(cell or 0): the number, 0 for an empty cell, NoInt when int() raises
CellOfNumeral ==
    [s \in {ToString(n) : n \in CellRange} |-> CHOOSE n \in CellRange : ToString(n) = s]

IntOrZero(cell) ==
    IF cell = "" THEN 0
    ELSE IF cell \in DOMAIN CellOfNumeral THEN CellOfNumeral[cell]
    ELSE NoInt

\* the cleaning of one row in get_rekap_from_spreadsheet
CleanRow(row) ==
    [tanggal |-> row.tanggal,
     tanggal_iso |-> convert_tanggal_indo_ke_iso(row.tanggal),
     korban_meninggal |-> IntOrZero(row.korban_meninggal),
     korban_hilang |-> IntOrZero(row.korban_hilang),
     mengungsi |-> IntOrZero(row.mengungsi),
     sumber_info |-> IF row.sumber_info = "" THEN "-" ELSE row.sumber_info,
     kabkota |-> IF row.kabkota = "" THEN "Wilayah Tidak Diketahui" ELSE row.kabkota]

\* int() raised on some cell of the row
CleanRaises(row) ==
    NoInt \in {IntOrZero(row.korban_meninggal), IntOrZero(row.korban_hilang),
               IntOrZero(row.mengungsi)}

\* the try block of get_rekap_from_spreadsheet
FetchRekap(raw_data, srcOk) ==
    IF ~srcOk \/ \E i \in 1..Len(raw_data) : CleanRaises(raw_data[i])
    THEN [ok |-> FALSE, value |-> <<>>]
    ELSE [ok |-> TRUE, value |-> [i \in 1..Len(raw_data) |-> CleanRow(raw_data[i])]]

\* str.strip()
RECURSIVE lstrip(_)
lstrip(t) == IF t # <<>> /\ Head(t) = " " THEN lstrip(Tail(t)) ELSE t

RECURSIVE rstrip(_)
rstrip(t) ==
    IF t # <<>> /\ t[Len(t)] = " " THEN rstrip(SubSeq(t, 1, Len(t) - 1)) ELSE t

strip(t) == rstrip(lstrip(t))

\* group_key of a row of the distribution sheet
group_key(row) == <<strip(row.tanggal), strip(row.nama), strip(row.alamat_daerah)>>

item_detail(row) ==
    [deskripsi |-> row.deskripsi, jumlah |-> row.jumlah, satuan |-> row.satuan,
     status |-> row.status_pengiriman]

\* the loop of get_logistik_keluar_grouped over raw_data: groups in the order
\* their key first appears, items in row order
RECURSIVE grouped_data(_, _)
grouped_data(raw_data, acc) ==
    IF raw_data = <<>> THEN acc
    ELSE LET row == Head(raw_data)
             k == group_key(row)
         IN  IF \E i \in 1..Len(acc) : acc[i].key = k
             THEN LET i == CHOOSE j \in 1..Len(acc) : acc[j].key = k
                  IN  grouped_data(Tail(raw_data),
                         [acc EXCEPT ![i].list_barang = Append(@, item_detail(row))])
             ELSE grouped_data(Tail(raw_data),
                     Append(acc, [key |-> k,
                                  header |-> [tanggal |-> k[1], nama |-> k[2],
                                              daerah |-> k[3]],
                                  list_barang |-> <<item_detail(row)>>]))

\* list(grouped_data.values())
final_list(raw_data) ==
    LET g == grouped_data(raw_data, <<>>)
    IN  [i \in 1..Len(g) |-> [header |-> g[i].header, list_barang |-> g[i].list_barang]]

\* the try block of get_logistik_keluar_grouped
FetchDistribusi(raw_data, srcOk) ==
    IF ~srcOk THEN [ok |-> FALSE, value |-> <<>>]
    ELSE [ok |-> TRUE, value |-> final_list(raw_data)]

\* contents the recap sheet may have
RekapRow(tanggal, km, kh, m, sumber, kabkota) ==
    [tanggal |-> tanggal, korban_meninggal |-> km, korban_hilang |-> kh,
     mengungsi |-> m, sumber_info |-> sumber, kabkota |-> kabkota]

RekapSheets ==
    { <<>>,
      << RekapRow(<< <<"5">>, <<"M", "e", "i">>, <<"2", "5">> >>, "3", "", "12",
                  "", "Medan") >>,
      << RekapRow(<< <<"5">>, <<"M", "e", "i">>, <<"2", "5">> >>, "4", "1", "20",
                  "BPBD", "Medan"),
         RekapRow(<< <<"1", "2">>, <<"D", "e", "c">>, <<"2", "0", "2", "5">> >>,
                  "", "", "7", "BPBD", "") >>,
      << RekapRow(<< <<"5", "/", "5">> >>, "n/a", "", "", "", "Binjai") >> }

\* contents the distribution sheet may have
DistribusiRow(tanggal, nama, daerah, deskripsi, jumlah) ==
    [tanggal |-> tanggal, nama |-> nama, alamat_daerah |-> daerah,
     deskripsi |-> deskripsi, jumlah |-> jumlah, satuan |-> "dus",
     status_pengiriman |-> "Terkirim"]

DistribusiSheets ==
    { <<>>,
      << DistribusiRow(<<"6">>, <<"A">>, <<"X">>, "Beras", 5) >>,
      << DistribusiRow(<<"6">>, <<"A">>, <<"X">>, "Beras", 5),
         DistribusiRow(<<"6">>, <<"B">>, <<"X">>, "Air", 2),
         DistribusiRow(<<"6">>, <<" ", "A">>, <<"X", " ">>, "Selimut", 1) >> }

\* as cache_hit, with the window closed at its end
cache_hit_le(cache, t) == t - cache.timestamp <= TTL /\ cache.data # <<>>

\* the cache test of both reads
cache_hit(cache, t) == t - cache.timestamp < TTL /\ cache.data # <<>>

\* the source is asked only when the cache test fails; it answers or raises
SourceFaults(cache, t) == IF cache_hit(cache, t) THEN {TRUE} ELSE BOOLEAN

\* the body of get_rekap_from_spreadsheet: the cache entry it leaves, the
\* value it returns and how it got it
rekap_result(cache, raw_data, t, srcOk) ==
    IF cache_hit(cache, t)
    THEN [cache |-> cache, value |-> cache.data, how |-> "hit"]
    ELSE LET f == FetchRekap(raw_data, srcOk)
         IN  IF f.ok
             THEN [cache |-> [data |-> f.value, timestamp |-> t],
                   value |-> f.value, how |-> "fetched"]
             ELSE [cache |-> cache,
                   value |-> IF cache.data # <<>> THEN cache.data ELSE <<>>,
                   how |-> "failed"]

\* the body of get_logistik_keluar_grouped
distribusi_result(cache, raw_data, t, srcOk) ==
    IF cache_hit(cache, t)
    THEN [cache |-> cache, value |-> cache.data, how |-> "hit"]
    ELSE LET f == FetchDistribusi(raw_data, srcOk)
         IN  IF f.ok
             THEN [cache |-> [data |-> f.value, timestamp |-> t],
                   value |-> f.value, how |-> "fetched"]
             ELSE [cache |-> cache, value |-> <<>>, how |-> "failed"]

\* what a cached read leaves behind for the observer
Seen(r, t) == [at |-> t, value |-> r.value]

Fetch(prev, r, t) == IF r.how = "fetched" THEN Seen(r, t) ELSE prev

get_rekap_from_spreadsheet ==
    /\ \E srcOk \in SourceFaults(CACHE_REKAP, now) :
       \E r \in {rekap_result(CACHE_REKAP, sheet_rekap, now, srcOk)} :
          /\ CACHE_REKAP' = r.cache
          /\ answer' = [fn |-> "rekap", value |-> r.value, how |-> r.how]
          /\ last_read' = [last_read EXCEPT !["rekap"] = Seen(r, now)]
          /\ last_fetch' = [last_fetch EXCEPT !["rekap"] = Fetch(@, r, now)]
    /\ UNCHANGED <<now, sheet_rekap, sheet_distribusi, CACHE_DISTRIBUSI>>

get_logistik_keluar_grouped ==
    /\ \E srcOk \in SourceFaults(CACHE_DISTRIBUSI, now) :
       \E r \in {distribusi_result(CACHE_DISTRIBUSI, sheet_distribusi, now, srcOk)} :
          /\ CACHE_DISTRIBUSI' = r.cache
          /\ answer' = [fn |-> "distribusi", value |-> r.value, how |-> r.how]
          /\ last_read' = [last_read EXCEPT !["distribusi"] = Seen(r, now)]
          /\ last_fetch' = [last_fetch EXCEPT !["distribusi"] = Fetch(@, r, now)]
    /\ UNCHANGED <<now, sheet_rekap, sheet_distribusi, CACHE_REKAP>>

\* the environment: the clock advances, an editor changes a sheet
Tick ==
    /\ now < TTL + MaxTicks * TickStep
    /\ now' = now + TickStep
    /\ UNCHANGED <<sheet_rekap, sheet_distribusi, CACHE_REKAP, CACHE_DISTRIBUSI,
                   answer, last_read, last_fetch>>

EditRekap ==
    /\ \E sh \in RekapSheets \ {sheet_rekap} : sheet_rekap' = sh
    /\ UNCHANGED <<now, sheet_distribusi, CACHE_REKAP, CACHE_DISTRIBUSI,
                   answer, last_read, last_fetch>>

EditDistribusi ==
    /\ \E sh \in DistribusiSheets \ {sheet_distribusi} : sheet_distribusi' = sh
    /\ UNCHANGED <<now, sheet_rekap, CACHE_REKAP, CACHE_DISTRIBUSI,
                   answer, last_read, last_fetch>>

CacheFns == {"rekap", "distribusi"}

\* no read and no fetch yet
Never == [at |-> NoInt, value |-> <<>>]

InitCache ==
    /\ now = TTL
    /\ sheet_rekap = <<>>
    /\ sheet_distribusi = <<>>
    /\ CACHE_REKAP = [data |-> <<>>, timestamp |-> 0]
    /\ CACHE_DISTRIBUSI = [data |-> <<>>, timestamp |-> 0]
    /\ answer = [fn |-> "none", value |-> <<>>, how |-> "none"]
    /\ last_read = [fn \in CacheFns |-> Never]
    /\ last_fetch = [fn \in CacheFns |-> Never]


\* ------------------------------------------------------------------ claims
\* a cached read of fn
ReadOf(fn) ==
    IF fn = "rekap" THEN get_rekap_from_spreadsheet ELSE get_logistik_keluar_grouped

\* the cache entry of fn
CacheOf(fn) == IF fn = "rekap" THEN CACHE_REKAP ELSE CACHE_DISTRIBUSI

\* what a fetch of fn that succeeds now returns
ContentOf(fn) ==
    IF fn = "rekap" THEN FetchRekap(sheet_rekap, TRUE).value
    ELSE FetchDistribusi(sheet_distribusi, TRUE).value

Fetched(fn) == last_fetch[fn].at # NoInt

SinceFetch(fn) == now - last_fetch[fn].at

\* C6 as stated: two reads of the same cached read made less than 300 s
\* apart return identical results, and the first read made once 300 s have
\* passed since the last successful fetch returns the source's current content.
C6_ReadsWithinTtlIdentical ==
    [][ \A fn \in CacheFns :
          ReadOf(fn) =>
             /\ (last_read[fn].at # NoInt /\ now - last_read[fn].at < TTL)
                   => answer'.value = last_read[fn].value
             /\ (Fetched(fn) /\ SinceFetch(fn) >= TTL
                   /\ last_read[fn].at - last_fetch[fn].at < TTL)
                   => answer'.value = ContentOf(fn) ]_vars

\* C6 amended: a read made less than 300 s after the last successful fetch
\* returns that fetch's result, provided the result was not empty, even if
\* the source changed since, so two reads inside that window return identical
\* results; a read made once 300 s have passed since the last successful
\* fetch refetches and, when the refetch succeeds, returns the source's
\* current content and that content becomes the cached value.
C6_ReadsWithinWindowOfFetch ==
    [][ \A fn \in CacheFns :
          ReadOf(fn) =>
             /\ (Fetched(fn) /\ SinceFetch(fn) < TTL /\ last_fetch[fn].value # <<>>)
                   => /\ answer'.value = last_fetch[fn].value
                      /\ answer'.how = "hit"
                      /\ last_read[fn].at >= last_fetch[fn].at
                            => answer'.value = last_read[fn].value
             /\ (Fetched(fn) /\ SinceFetch(fn) >= TTL)
                   => /\ answer'.how # "hit"
                      /\ answer'.how = "fetched"
                            => /\ answer'.value = ContentOf(fn)
                               /\ CacheOf(fn)' = [data |-> ContentOf(fn), timestamp |-> now]
                               /\ last_fetch'[fn] = [at |-> now, value |-> ContentOf(fn)] ]_vars

\* a recap read answered from the cache after the sheet changed, and a
\* distribution refetched after its window had passed
C6_Witness ==
    /\ answer.fn = "rekap"
    /\ answer.how = "hit"
    /\ last_read["rekap"].at = now
    /\ answer.value # ContentOf("rekap")
    /\ last_fetch["distribusi"].at >= 2 * TTL
    /\ last_fetch["distribusi"].value # <<>>
    /\ CACHE_DISTRIBUSI.timestamp = last_fetch["distribusi"].at

\* C7: when a cached read has to refetch and the source raises, the read
\* returns the previously cached value and leaves the cache entry (data and
\* timestamp) unchanged, for every cached read.
C7_FailedRefetchKeepsCache ==
    [][ \A fn \in CacheFns :
          (ReadOf(fn) /\ answer'.how = "failed")
             => /\ answer'.value = CacheOf(fn).data
                /\ CacheOf(fn)' = CacheOf(fn) ]_vars

\* ======================================================= check-in and map
\* submit_absensi, api_refresh_map and map_view of app_postgres.py with the
\* reads and the insert of pg_data.py they call. Coordinates are whole
\* degrees; a float that is None is NoInt.

\* GEOJSON_TTL_SECONDS, its default
GEOJSON_TTL == 86400

\* float("inf"), above every distance of the table
Infinity == 10 ^ 8

\* truth value of a float or None in Python
Truthy(x) == x # NoInt /\ x # 0

Min2(a, b) == IF a < b THEN a ELSE b
Max2(a, b) == IF a > b THEN a ELSE b

\* as LeXinters, without regard to the sign of p2y - p1y
LeXinters_unsigned(x, y, p1, p2) ==
    (x - p1[1]) * (p2[2] - p1[2]) <= (y - p1[2]) * (p2[1] - p1[1])

\* x <= xinters, where
\*   xinters = (y - p1y) * (p2x - p1x) / (p2y - p1y) + p1x
\* and p1y # p2y, on whole degrees
LeXinters(x, y, p1, p2) ==
    LET num == (y - p1[2]) * (p2[1] - p1[1])
        den == p2[2] - p1[2]
    IN  IF den > 0 THEN (x - p1[1]) * den <= num
        ELSE (x - p1[1]) * den >= num

\* the loop of point_in_polygon from iteration i on, p1 the previous vertex
RECURSIVE ray_casting(_, _, _, _, _)
ray_casting(point, polygon, i, p1, inside) ==
    LET n == Len(polygon)
    IN  IF i > n THEN inside
        ELSE LET p2 == polygon[(i % n) + 1]
                 x == point[1]
                 y == point[2]
                 crossing ==
                    /\ y > Min2(p1[2], p2[2])
                    /\ y <= Max2(p1[2], p2[2])
                    /\ x <= Max2(p1[1], p2[1])
                    /\ (p1[1] = p2[1] \/ LeXinters(x, y, p1, p2))
             IN  ray_casting(point, polygon, i + 1, p2,
                             IF crossing THEN ~inside ELSE inside)

\* point_in_polygon; point is <<lon, lat>>, polygon a ring of <<lon, lat>>
point_in_polygon(point, polygon) ==
    ray_casting(point, polygon, 0, polygon[1], FALSE)

\* dict.get(key, default)
GetOr(row, key, default) == IF key \in DOMAIN row THEN row[key] ELSE default

\* as RingTest, with a ring that cannot be unpacked passed over
RingTest_lenient(point, poly_coords) ==
    IF poly_coords = <<>> THEN "no"
    ELSE IF \E i \in DOMAIN poly_coords : Len(poly_coords[i]) # 2 THEN "no"
    ELSE IF point_in_polygon(point, poly_coords) THEN "found"
    ELSE "no"

\* poly_coords and point_in_polygon(point, poly_coords): "no" for an empty
\* ring, "raise" when a vertex does not unpack into two numbers (every
\* vertex is unpacked, whatever the point), else the answer of the ray casting
RingTest(point, poly_coords) ==
    IF poly_coords = <<>> THEN "no"
    ELSE IF \E i \in DOMAIN poly_coords : Len(poly_coords[i]) # 2 THEN "raise"
    ELSE IF point_in_polygon(point, poly_coords) THEN "found"
    ELSE "no"

\* as MultiFound, with the first polygon tested only
MultiFound_first(polys, point) ==
    IF polys = <<>> THEN "no"
    ELSE RingTest(point, IF Head(polys) # <<>> THEN Head(polys)[1] ELSE <<>>)

\* the loop over the polygons of a MultiPolygon, left at the first found
RECURSIVE MultiFound(_, _)
MultiFound(polys, point) ==
    IF polys = <<>> THEN "no"
    ELSE LET poly == Head(polys)
             r == RingTest(point, IF poly # <<>> THEN poly[1] ELSE <<>>)
         IN  IF r = "no" THEN MultiFound(Tail(polys), point) ELSE r

\* the test of one feature in cek_wilayah_geojson: "found", "no" or "raise".
\* A geometry is a dictionary that may lack its keys; [[]][0] is the empty
\* ring and [][0] raises IndexError.
FeatureFound(geometry, point) ==
    CASE GetOr(geometry, "type", NULL) = "Polygon" ->
            LET coordinates == GetOr(geometry, "coordinates", << <<>> >>)
            IN  IF coordinates = <<>> THEN "raise"
                ELSE RingTest(point, coordinates[1])
      [] GetOr(geometry, "type", NULL) = "MultiPolygon" ->
            MultiFound(GetOr(geometry, "coordinates", <<>>), point)
      [] OTHER -> "no"

\* the loop of cek_wilayah_geojson over the features; an exception ends it
\* in the except clause of the function
RECURSIVE FirstRegion(_, _)
FirstRegion(features, point) ==
    IF features = <<>> THEN "Luar Wilayah Sumut"
    ELSE LET feature == Head(features)
             found == FeatureFound(GetOr(feature, "geometry", <<>>), point)
             kabkota == GetOr(GetOr(feature, "properties", <<>>), "kabkota", "")
         IN  IF found = "raise" THEN "Gagal Deteksi Wilayah"
             ELSE IF found = "found"
                  THEN (IF kabkota # "" THEN kabkota ELSE "Wilayah Tak Bernama")
             ELSE FirstRegion(Tail(features), point)

\* a rectangle lon1..lon2 x lat1..lat2 as a closed GeoJSON ring
Ring(lon1, lat1, lon2, lat2) ==
    << <<lon1, lat1>>, <<lon2, lat1>>, <<lon2, lat2>>, <<lon1, lat2>>, <<lon1, lat1>> >>

\* public.geo_kabkota
geo_kabkota ==
    << [ogc_fid |-> 1, kabkota |-> "KOTA MEDAN",
        geometry |-> [type |-> "Polygon",
                      coordinates |-> << Ring(97, 1, 99, 3) >>]],
       [ogc_fid |-> 2, kabkota |-> "",
        geometry |-> [type |-> "Polygon",
                      coordinates |-> << Ring(97, 1, 100, 4) >>]],
       [ogc_fid |-> 3, kabkota |-> "KABUPATEN KARO",
        geometry |-> [type |-> "MultiPolygon",
                      coordinates |-> << << Ring(100, 1, 100, 2) >>,
                                         << Ring(99, 3, 100, 4) >> >>]] >>

\* pg_get_kabkota_featurecollection: the rows that have a name
pg_get_kabkota_featurecollection ==
    SelectSeq([i \in 1..Len(geo_kabkota) |->
                  [geometry |-> geo_kabkota[i].geometry,
                   properties |-> [ogc_fid |-> geo_kabkota[i].ogc_fid,
                                   kabkota |-> geo_kabkota[i].kabkota]]],
              LAMBDA f : f.properties.kabkota # "")

\* the values FORCE_GEOJSON_REFRESH has in the environment of a request: its
\* default and two of the spellings that set it
ForceInputs == {"0", "1", "yes"}

\* as ensure_kabkota_geojson_static, with a file of age ttl still kept
ensure_kabkota_geojson_static_le(file, t, fetchOk, env) ==
    LET force == env \in {"1", "true", "True", "YES", "yes"}
    IN  IF file.exists /\ ~force /\ t - file.mtime <= GEOJSON_TTL THEN file
        ELSE IF ~fetchOk THEN [raised |-> "pg_fetchall"]
        ELSE [exists |-> TRUE, mtime |-> t,
              features |-> pg_get_kabkota_featurecollection]

\* ensure_kabkota_geojson_static: the file after the call, or the exception
\* of the query of the regions; env is the value of FORCE_GEOJSON_REFRESH.
\* The query runs before the file is opened for writing.
ensure_kabkota_geojson_static(file, t, fetchOk, env) ==
    LET force == env \in {"1", "true", "True", "YES", "yes"}
    IN  IF file.exists /\ ~force /\ t - file.mtime < GEOJSON_TTL THEN file
        ELSE IF ~fetchOk THEN [raised |-> "pg_fetchall"]
        ELSE [exists |-> TRUE, mtime |-> t,
              features |-> pg_get_kabkota_featurecollection]

\* the outcomes the query of the regions can have in a request: every
\* request that wants the file may find the store down
GeoFaults(wanted) == IF wanted THEN BOOLEAN ELSE {TRUE}

\* ensure_kabkota_geojson_ready: the file after the call; an exception of
\* ensure_kabkota_geojson_static is printed and the file stays as it was
ensure_kabkota_geojson_ready(file, t, fetchOk, env) ==
    LET r == ensure_kabkota_geojson_static(file, t, fetchOk, env)
    IN  IF "raised" \in DOMAIN r THEN file ELSE r

\* cek_wilayah_geojson on the file as ensure_kabkota_geojson_ready left it:
\* open() raises on a missing file, json.load on a file that is no JSON,
\* float() on a coordinate that is no number; a document without "features"
\* has none
cek_wilayah_geojson(file, user_lat, user_lon) ==
    IF ~file.exists \/ GetOr(file, "corrupt", FALSE) THEN "Gagal Deteksi Wilayah"
    ELSE IF ParseFloat(user_lon) = NoInt \/ ParseFloat(user_lat) = NoInt
         THEN "Gagal Deteksi Wilayah"
    ELSE FirstRegion(GetOr(file, "features", <<>>),
                     <<ParseFloat(user_lon), ParseFloat(user_lat)>>)

\* 10000 * haversine_distance between (lat1, lon) and (lat2, lon + d), in
\* km, as the formula of haversine_distance gives it in double precision:
\* HaversineTable[lat1][lat2][d + 1]. Values that differ as doubles differ here.
HaversineTable ==
 <<
    << <<0, 1111780, 2223560, 3335340>>,
       <<1111950, 1572254, 2485687, 3515167>>,
       <<2223900, 2486066, 3144030, 4007358>>,
       <<3335848, 3515917, 4007875, 4715086>> >>,
    << <<1111950, 1572254, 2485687, 3515167>>,
       <<0, 1111272, 2222544, 3333815>>,
       <<1111951, 1571776, 2484476, 3513239>>,
       <<2223899, 2485688, 3142833, 4005244>> >>,
    << <<2223900, 2486066, 3144030, 4007358>>,
       <<1111951, 1571776, 2484476, 3513239>>,
       <<0, 1110425, 2220850, 3331275>>,
       <<1111949, 1571058, 2482659, 3510348>> >>,
    << <<3335848, 3515917, 4007875, 4715086>>,
       <<2223899, 2485688, 3142833, 4005244>>,
       <<1111949, 1571058, 2482659, 3510348>>,
       <<0, 1109241, 2218481, 3327720>> >>
 >>

Abs(n) == IF n < 0 THEN -n ELSE n

\* haversine_distance; lat1, lon1 are form values, lat2, lon2 floats
haversine_distance(lat1, lon1, lat2, lon2) ==
    IF ParseFloat(lat1) = NoInt \/ ParseFloat(lon1) = NoInt THEN Infinity
    ELSE HaversineTable[ParseFloat(lat1)][lat2][Abs(lon2 - ParseFloat(lon1)) + 1]

\* the row pg_get_data_lokasi returns for id; withActive is FALSE when the
\* query without is_active answered
LokasiOut(tbl, id, withActive) ==
    [id_lokasi |-> id,
     jenis_lokasi |-> tbl[id].jenis_lokasi,
     latitude |-> tbl[id].latitude,
     longitude |-> tbl[id].longitude,
     is_active |-> IF withActive THEN tbl[id].is_active # "false" ELSE TRUE]

\* the rows of ids in ORDER BY waktu DESC
RECURSIVE OrderByWaktuDesc(_, _, _)
OrderByWaktuDesc(tbl, ids, withActive) ==
    IF ids = {} THEN <<>>
    ELSE LET top == CHOOSE i \in ids : \A j \in ids : tbl[j].waktu <= tbl[i].waktu
         IN  <<LokasiOut(tbl, top, withActive)>>
                \o OrderByWaktuDesc(tbl, ids \ {top}, withActive)

\* pg_get_data_lokasi
pg_get_data_lokasi(tbl, withActive) == OrderByWaktuDesc(tbl, DOMAIN tbl, withActive)

\* the outcomes of the two queries of pg_get_data_lokasi
LokasiReadFaults == {"new", "old", "raise"}

\* get_data_lokasi_any
get_data_lokasi_any(tbl, fault) ==
    IF fault = "raise" THEN <<>> ELSE pg_get_data_lokasi(tbl, fault = "new")

\* _is_active_row
is_active_row(row) == row.is_active # FALSE

\* dict.get(key)
Get(row, key) == IF key \in DOMAIN row THEN row[key] ELSE NULL

\* as Candidates, with the facilities whose active flag is false left out
Candidates_active_only(data_lokasi_raw) ==
    LET posko == SelectSeq(data_lokasi_raw,
                    LAMBDA l : /\ l.jenis_lokasi = "Posko Pengungsian"
                               /\ Truthy(l.latitude) /\ Truthy(l.longitude)
                               /\ l.is_active # FALSE)
    IN  IF posko # <<>> THEN posko
        ELSE SelectSeq(data_lokasi_raw,
                LAMBDA l : Truthy(l.latitude) /\ Truthy(l.longitude)
                           /\ l.is_active # FALSE)

\* the candidates of the nearest-facility search in submit_absensi
Candidates(data_lokasi_raw) ==
    LET posko == SelectSeq(data_lokasi_raw,
                    LAMBDA l : /\ l.jenis_lokasi = "Posko Pengungsian"
                               /\ Truthy(l.latitude) /\ Truthy(l.longitude))
    IN  IF posko # <<>> THEN posko
        ELSE SelectSeq(data_lokasi_raw,
                LAMBDA l : Truthy(l.latitude) /\ Truthy(l.longitude))

\* no facility
NoRow == [id_lokasi |-> ""]

\* as NearestLoop, with dist <= min_dist: the last of the candidates at the
\* minimal distance is kept
RECURSIVE NearestLoop_le(_, _, _, _, _, _)
NearestLoop_le(candidates, latitude, longitude, min_dist, nearest, calls) ==
    IF candidates = <<>> THEN [nearest |-> nearest, distances |-> calls]
    ELSE LET p == Head(candidates)
             dist == haversine_distance(latitude, longitude, p.latitude, p.longitude)
         IN  IF min_dist = NoInt \/ dist <= min_dist
             THEN NearestLoop_le(Tail(candidates), latitude, longitude, dist, p, calls + 1)
             ELSE NearestLoop_le(Tail(candidates), latitude, longitude, min_dist, nearest,
                                 calls + 1)

\* the loop of submit_absensi over the candidates; min_dist is NoInt for None
RECURSIVE NearestLoop(_, _, _, _, _, _)
NearestLoop(candidates, latitude, longitude, min_dist, nearest, calls) ==
    IF candidates = <<>> THEN [nearest |-> nearest, distances |-> calls]
    ELSE LET p == Head(candidates)
             dist == haversine_distance(latitude, longitude, p.latitude, p.longitude)
         IN  IF min_dist = NoInt \/ dist < min_dist
             THEN NearestLoop(Tail(candidates), latitude, longitude, dist, p, calls + 1)
             ELSE NearestLoop(Tail(candidates), latitude, longitude, min_dist, nearest,
                              calls + 1)

\* nearest.get("kode_lokasi") or nearest.get("kode") or ""
KodeOf(nearest) ==
    IF nearest = NoRow THEN ""
    ELSE IF Get(nearest, "kode_lokasi") \notin {NULL, ""} THEN Get(nearest, "kode_lokasi")
    ELSE IF Get(nearest, "kode") \notin {NULL, ""} THEN Get(nearest, "kode")
    ELSE ""

\* the loop over the alternative INSERT statements: pg_execute runs each in
\* turn, every call its own transaction, and the first that does not raise
\* ends the loop.  accepted is the set of statements the store's schema
\* takes; tried lists the statements executed and written those committed.
RECURSIVE insert_loop_all(_, _, _, _)
insert_loop_all(attempts, accepted, tried, written) ==
    IF attempts = <<>> THEN [tried |-> tried, written |-> written]
    ELSE insert_loop_all(Tail(attempts), accepted, Append(tried, Head(attempts)),
                         IF Head(attempts) \in accepted
                         THEN Append(written, Head(attempts)) ELSE written)

RECURSIVE insert_loop(_, _, _, _)
insert_loop(attempts, accepted, tried, written) ==
    IF attempts = <<>> THEN [tried |-> tried, written |-> written]
    ELSE IF Head(attempts) \in accepted
         THEN [tried |-> Append(tried, Head(attempts)),
               written |-> Append(written, Head(attempts))]
         ELSE insert_loop(Tail(attempts), accepted, Append(tried, Head(attempts)),
                          written)

\* what the store may take of the three INSERTs of pg_insert_lokasi_relawan,
\* named by the columns that set them apart
InsertFaults == SUBSET {"lokasi_posko", "waktu", "timestamp"}

\* pg_insert_lokasi_relawan
pg_insert_lokasi_relawan(tbl, data, t, accepted) ==
    LET lat_f == to_float(data.latitude)
        lon_f == to_float(data.longitude)
        attempts == <<"lokasi_posko", "waktu", "timestamp">>
        r == insert_loop(attempts, accepted, <<>>, <<>>)
        row(stmt) == [waktu |-> t, id_relawan |-> data.id_relawan,
                      latitude |-> lat_f, longitude |-> lon_f,
                      lokasi |-> IF stmt = "lokasi_posko" THEN data.lokasi ELSE NULL,
                      lokasi_posko |-> IF stmt = "lokasi_posko" THEN data.lokasi_posko
                                       ELSE NULL]
    IN  IF lat_f = NoInt \/ lon_f = NoInt
        THEN [tbl |-> tbl, ret |-> "raise", tried |-> <<>>]
        ELSE [tbl |-> tbl \o [k \in DOMAIN r.written |-> row(r.written[k])],
              ret |-> IF r.written = <<>> THEN "raise" ELSE "true",
              tried |-> r.tried]

\* write_lokasi_relawan_any
write_lokasi_relawan_any(tbl, data, t, accepted) ==
    LET r == pg_insert_lokasi_relawan(tbl, data, t, accepted)
    IN  [tbl |-> r.tbl, ret |-> r.ret = "true", tried |-> r.tried]

LatInputs == {"", "abc", "2", "4"}
LonInputs == {"", "98", "100"}

\* what submit_absensi did: the form values, whether cek_wilayah_geojson was
\* called, the calls of haversine_distance, the facility the search ended
\* with, the result of the write, the INSERTs it ran and the message flashed
CheckinOut(latitude, longitude, classified, lokasi, search, kode, w, message) ==
    [op |-> "submit_absensi", latitude |-> latitude, longitude |-> longitude,
     classified |-> classified, lokasi |-> lokasi,
     distances |-> search.distances, nearest |-> search.nearest.id_lokasi,
     lokasi_posko |-> kode, written |-> w.ret, tried |-> w.tried,
     message |-> message]

NoSearch == [nearest |-> NoRow, distances |-> 0]

\* submit_absensi; each local of the handler is bound once, as a one-element
\* choice
submit_absensi ==
    /\ Len(lokasi_relawan) < MaxCheckins
    /\ IF ~session.logged_in
       THEN /\ resp' = Resp("submit_absensi", 302, "danger", "none")
            /\ out' = CheckinOut("", "", FALSE, "", NoSearch, "",
                                 [ret |-> FALSE, tried |-> <<>>],
                                 "Silahkan login terlebih dahulu!")
            /\ UNCHANGED <<lokasi_relawan, kabkota_geojson>>
       ELSE \E latitude \in LatInputs, longitude \in LonInputs :
            \E classified \in {latitude # "" /\ longitude # ""} :
            \E geoOk \in GeoFaults(classified) :
            \E env \in (IF classified THEN ForceInputs ELSE {"0"}) :
            \E file \in {IF classified
                         THEN ensure_kabkota_geojson_ready(kabkota_geojson, now, geoOk, env)
                         ELSE kabkota_geojson} :
            \E lokasi_terdeteksi \in
                  {IF classified THEN cek_wilayah_geojson(file, latitude, longitude)
                   ELSE "Mencari..."} :
            \E lokasiFault \in LokasiReadFaults :
            \E data_lokasi_raw \in {get_data_lokasi_any(data_lokasi, lokasiFault)} :
            \E search \in {NearestLoop(Candidates(data_lokasi_raw), latitude, longitude,
                                       NoInt, NoRow, 0)} :
            \E lokasi_posko_code \in {KodeOf(search.nearest)} :
            \E data \in {[id_relawan |-> session.id_relawan,
                          latitude |-> latitude, longitude |-> longitude,
                          lokasi |-> lokasi_terdeteksi,
                          lokasi_posko |-> lokasi_posko_code]} :
            \E accepted \in InsertFaults :
            \E w \in {write_lokasi_relawan_any(lokasi_relawan, data, now, accepted)} :
               /\ kabkota_geojson' = file
               /\ lokasi_relawan' = w.tbl
               /\ resp' = Resp("submit_absensi", 302,
                               IF lokasi_terdeteksi # "Luar Wilayah Sumut"
                               THEN "success" ELSE "warning", "none")
               /\ out' = CheckinOut(latitude, longitude, classified, lokasi_terdeteksi,
                                    search, lokasi_posko_code, w, "Absensi berhasil!")
    /\ UNCHANGED <<session, logistik_permintaan, asesmen, data_lokasi,
                   admin_action_log, nOk, nAuditFail>>

\* ------------------------------------------------------------ the map
\* public.data_status_kabkota as pg_get_status_map returns it
pg_get_status_map == ("KOTA MEDAN" :> "Tanggap Darurat")

\* get_status_map_any
get_status_map_any(ok) == IF ok THEN pg_get_status_map ELSE <<>>

\* get_relawan_list_any; the roster is stored in the order of nama_relawan
get_relawan_list_any(ok) == IF ok THEN pg_get_relawan_list ELSE <<>>

\* the list comprehension of map_view and api_refresh_map over data_lokasi_raw
MapLokasi(data_lokasi_raw) ==
    SelectSeq(data_lokasi_raw,
        LAMBDA d : Truthy(d.latitude) /\ Truthy(d.longitude) /\ is_active_row(d))

\* the elements of a set of integers, greatest first
RECURSIVE Descending(_)
Descending(ids) ==
    IF ids = {} THEN <<>>
    ELSE LET top == CHOOSE i \in ids : \A j \in ids : j <= i
         IN  <<top>> \o Descending(ids \ {top})

\* pg_get_relawan_locations_last24h: DISTINCT ON (id_relawan) the latest row
\* of the last hours, ORDER BY id_relawan
pg_get_relawan_locations_last24h(tbl, t, hours) ==
    LET recent == {i \in DOMAIN tbl : /\ tbl[i].waktu >= t - hours * 3600
                                      /\ tbl[i].latitude # NoInt
                                      /\ tbl[i].longitude # NoInt}
        of(id) == {i \in recent : tbl[i].id_relawan = id}
        latest(id) == CHOOSE i \in of(id) :
                         \A j \in of(id) : \/ tbl[j].waktu < tbl[i].waktu
                                           \/ tbl[j].waktu = tbl[i].waktu /\ j <= i
        ids == SelectSeq([k \in DOMAIN pg_get_relawan_list |->
                             pg_get_relawan_list[k].id_relawan],
                         LAMBDA id : of(id) # {})
    IN  [k \in DOMAIN ids |->
            [id_relawan |-> ids[k], waktu |-> tbl[latest(ids[k])].waktu,
             latitude |-> tbl[latest(ids[k])].latitude,
             longitude |-> tbl[latest(ids[k])].longitude]]

\* _pg_get_asesmen_last_hours with only_active: the rows whose is_active IS
\* DISTINCT FROM false, latest (highest id) first
pg_get_asesmen_last_hours(tbl) ==
    LET ids == Descending({i \in DOMAIN tbl : tbl[i].is_active # "false"})
    IN  [k \in DOMAIN ids |-> [id |-> ids[k], is_active |-> tbl[ids[k]].is_active]]

\* the keyword arguments of jsonify / render_template are evaluated in this
\* order
AsesmenOrder ==
    <<"kesehatan", "pendidikan", "psikososial", "infrastruktur", "wash", "kondisi">>

\* pg_get_logistik_permintaan_last24h, latest (highest id) first
pg_get_logistik_permintaan_last24h(tbl) ==
    LET ids == Descending(DOMAIN tbl)
    IN  [k \in DOMAIN ids |->
            [id |-> ids[k], status_permintaan |-> tbl[ids[k]].status_permintaan,
             latitude |-> tbl[ids[k]].latitude, longitude |-> tbl[ids[k]].longitude]]

\* the call of one map request that raises, "none" when every call answers:
\* the first query of pg_get_data_lokasi or both, the read of the status
\* map, of the roster, of the check-in markers or of the logistics requests,
\* an assessment listing, the export of the GeoJSON file or a spreadsheet
MapFaults ==
    {"none", "data_lokasi_new", "data_lokasi", "status_map", "relawan_list",
     "relawan_lokasi", "permintaan_logistik", "kabkota_geojson",
     "sheet_distribusi", "sheet_rekap"} \cup AsesmenKinds

\* the calls api_refresh_map makes
RefreshFaults ==
    MapFaults \ {"relawan_list", "kabkota_geojson", "sheet_distribusi", "sheet_rekap"}

\* the outcome of the two queries of pg_get_data_lokasi under fault
LokasiFaultOf(fault) ==
    CASE fault = "data_lokasi" -> "raise"
      [] fault = "data_lokasi_new" -> "old"
      [] OTHER -> "new"

\* the reads map_view and api_refresh_map share, in the order of the code;
\* raised is TRUE when an exception left the block
MapReads(fault) ==
    [data_lokasi |-> MapLokasi(get_data_lokasi_any(data_lokasi, LokasiFaultOf(fault))),
     status_map |-> get_status_map_any(fault # "status_map"),
     relawan_lokasi |-> IF fault # "relawan_lokasi"
                        THEN pg_get_relawan_locations_last24h(lokasi_relawan, now, 720)
                        ELSE <<>>,
     permintaan_logistik |-> IF fault # "permintaan_logistik"
                             THEN pg_get_logistik_permintaan_last24h(logistik_permintaan)
                             ELSE <<>>,
     asesmen |-> [k \in AsesmenKinds |-> pg_get_asesmen_last_hours(asesmen[k])],
     raised |-> fault \in AsesmenKinds]

\* what a map request answered; failed names the call that raised
MapOut(op, reads, fault) ==
    IF reads.raised
    THEN [op |-> op, code |-> 500, success |-> FALSE, failed |-> fault]
    ELSE [op |-> op, code |-> 200, success |-> TRUE, failed |-> fault,
          data_lokasi |-> reads.data_lokasi, status_map |-> reads.status_map,
          relawan_lokasi |-> reads.relawan_lokasi, asesmen |-> reads.asesmen,
          permintaan_logistik |-> reads.permintaan_logistik]

\* GET /api/refresh_map: an exception of an assessment listing reaches the
\* handler's except and is answered with success false and status 500
api_refresh_map ==
    /\ \E fault \in RefreshFaults :
       \E reads \in {MapReads(fault)} :
          /\ out' = MapOut("api_refresh_map", reads, fault)
          /\ resp' = Resp("api_refresh_map", IF reads.raised THEN 500 ELSE 200,
                          "none", "none")
    /\ UNCHANGED <<session, logistik_permintaan, asesmen, data_lokasi,
                   admin_action_log, nOk, nAuditFail>>
    /\ UNCHANGED <<lokasi_relawan, kabkota_geojson>>

\* what map_view answered: the template's values when it was rendered
PageOut(reads, fault, stok_gudang, rekap_kabkota, relawan_list) ==
    IF reads.raised THEN MapOut("map_view", reads, fault)
    ELSE [stok_gudang |-> stok_gudang, rekap_kabkota |-> rekap_kabkota,
          relawan_list |-> relawan_list] @@ MapOut("map_view", reads, fault)

\* GET /: the page of the map. The reads of the dropdown reference tables
\* are each guarded and passed to the template as they are. An exception of
\* an assessment listing is caught by nobody: the request ends with status
\* 500, after the GeoJSON file and the caches were refreshed.
map_view ==
    /\ \E fault \in MapFaults :
       \E stok_gudang \in {distribusi_result(CACHE_DISTRIBUSI, sheet_distribusi, now,
                                             fault # "sheet_distribusi")} :
       \E rekap_kabkota \in {rekap_result(CACHE_REKAP, sheet_rekap, now,
                                          fault # "sheet_rekap")} :
       \E reads \in {MapReads(fault)}, env \in ForceInputs :
          /\ kabkota_geojson' = ensure_kabkota_geojson_ready(kabkota_geojson, now,
                                     fault # "kabkota_geojson", env)
          /\ CACHE_DISTRIBUSI' = stok_gudang.cache
          /\ CACHE_REKAP' = rekap_kabkota.cache
          /\ answer' = [fn |-> "rekap", value |-> rekap_kabkota.value,
                        how |-> rekap_kabkota.how]
          /\ last_read' = [last_read EXCEPT
                              !["distribusi"] = Seen(stok_gudang, now),
                              !["rekap"] = Seen(rekap_kabkota, now)]
          /\ last_fetch' = [last_fetch EXCEPT
                               !["distribusi"] = Fetch(@, stok_gudang, now),
                               !["rekap"] = Fetch(@, rekap_kabkota, now)]
          /\ out' = PageOut(reads, fault, stok_gudang.value, rekap_kabkota.value,
                            get_relawan_list_any(fault # "relawan_list"))
          /\ resp' = Resp("map_view", IF reads.raised THEN 500 ELSE 200,
                          "none", "none")
    /\ UNCHANGED <<session, logistik_permintaan, asesmen, data_lokasi,
                   admin_action_log, nOk, nAuditFail>>
    /\ UNCHANGED <<now, sheet_rekap, sheet_distribusi, lokasi_relawan>>

\* half a day passes
TickHalfDay ==
    /\ now < TTL + MaxHalfDays * (GEOJSON_TTL \div 2)
    /\ now' = now + GEOJSON_TTL \div 2
    /\ UNCHANGED <<sheet_rekap, sheet_distribusi, CACHE_REKAP, CACHE_DISTRIBUSI,
                   answer, last_read, last_fetch>>

InitMap ==
    /\ lokasi_relawan = <<>>
    /\ kabkota_geojson = [exists |-> FALSE, mtime |-> 0, features |-> <<>>]
    /\ out = [op |-> "none"]

\* --------------------------------------------------- assessment submissions
\* int(val) of an answer field: a decimal numeral, with its sign and the
\* blanks around it if any, else ValueError (TypeError for None)
IntOfText == [s \in {ToString(i) : i \in -3..12} |-> CHOOSE i \in -3..12 : ToString(i) = s] @@ (" 4 " :> 4) @@ ("+2" :> 2)

\* as _ask_int_1_5, with every answer outside 1..5 made the default
ask_int_1_5_default(val) ==
    IF val \notin DOMAIN IntOfText THEN 1
    ELSE IF IntOfText[val] < 1 \/ IntOfText[val] > 5 THEN 1
    ELSE IntOfText[val]

\* _ask_int_1_5: the answer clamped to 1..5, 1 when int() raises
ask_int_1_5(val) ==
    IF val \notin DOMAIN IntOfText THEN 1
    ELSE IF IntOfText[val] < 1 THEN 1
    ELSE IF IntOfText[val] > 5 THEN 5
    ELSE IntOfText[val]

\* the weights dictionaries of the handlers, in tenths: the five questions of
\* submit_asesmen_kesehatan, and the ten of submit_asesmen_pendidikan,
\* _psikososial, _infrastruktur and _wash, which are the same table
weights_kesehatan == <<10, 10, 10, 15, 15>>
weights_10 == <<14, 10, 10, 10, 8, 15, 9, 13, 8, 9>>

RECURSIVE sum(_)
sum(xs) == IF xs = <<>> THEN 0 ELSE Head(xs) + sum(Tail(xs))

\* the ten-answer vectors over {1, 3, 5} for which (weighted_sum / max_sum) *
\* 100.0, evaluated in IEEE doubles in the order the handler adds, comes out
\* one unit in the last place below a quotient that is exactly 60 or 80
\* (59.999999999999986 and 79.99999999999999).  For every other vector over
\* 1..5, and for every five-answer vector, the double lies on the same side of
\* 60 and of 80 as the exact quotient.
RoundsLow ==
    {
      <<1, 1, 3, 5, 5, 5, 1, 3, 3, 3>>, <<1, 1, 5, 3, 5, 5, 1, 3, 3, 3>>,
      <<1, 3, 1, 5, 5, 5, 1, 3, 3, 3>>, <<1, 3, 3, 3, 5, 5, 1, 3, 3, 3>>,
      <<1, 3, 5, 1, 5, 5, 1, 3, 3, 3>>, <<1, 5, 1, 3, 5, 5, 1, 3, 3, 3>>,
      <<1, 5, 3, 1, 5, 5, 1, 3, 3, 3>>, <<1, 5, 5, 5, 3, 1, 1, 3, 5, 3>>,
      <<1, 5, 5, 5, 5, 1, 1, 3, 3, 3>>, <<1, 5, 5, 5, 5, 5, 3, 5, 1, 5>>,
      <<5, 1, 1, 3, 3, 5, 1, 3, 3, 3>>, <<5, 1, 3, 1, 3, 5, 1, 3, 3, 3>>,
      <<5, 1, 5, 5, 3, 1, 1, 3, 3, 3>>, <<5, 1, 5, 5, 3, 5, 3, 5, 1, 5>>,
      <<5, 3, 1, 1, 3, 5, 1, 3, 3, 3>>, <<5, 3, 3, 5, 3, 1, 1, 3, 3, 3>>,
      <<5, 3, 3, 5, 3, 5, 3, 5, 1, 5>>, <<5, 3, 5, 3, 3, 1, 1, 3, 3, 3>>,
      <<5, 3, 5, 3, 3, 5, 3, 5, 1, 5>>, <<5, 5, 1, 5, 3, 1, 1, 3, 3, 3>>,
      <<5, 5, 1, 5, 3, 5, 3, 5, 1, 5>>, <<5, 5, 3, 3, 3, 1, 1, 3, 3, 3>>,
      <<5, 5, 3, 3, 3, 5, 3, 5, 1, 5>>, <<5, 5, 5, 1, 3, 1, 1, 3, 3, 3>>,
      <<5, 5, 5, 1, 3, 5, 3, 5, 1, 5>>
    }

\* skor_100 as a double: the exact quotient is 100 * num / den, and low says
\* that the double is just below it
skor_100(answers, weights) ==
    [num |-> sum([k \in DOMAIN answers |-> answers[k] * weights[k]]),
     den |-> sum([k \in DOMAIN weights |-> 5 * weights[k]]),
     low |-> answers \in RoundsLow]

\* skor_100 >= threshold on doubles
skor_ge(skor, threshold) ==
    \/ 100 * skor.num > threshold * skor.den
    \/ 100 * skor.num = threshold * skor.den /\ ~skor.low

\* as status_of, with > in place of >=
status_of_gt(skor) ==
    IF 100 * skor.num > 80 * skor.den THEN "Kritis"
    ELSE IF 100 * skor.num > 60 * skor.den THEN "Waspada"
    ELSE "Aman"

\* the if / elif / else that every handler ends its scoring with
status_of(skor) ==
    IF skor_ge(skor, 80) THEN "Kritis"
    ELSE IF skor_ge(skor, 60) THEN "Waspada"
    ELSE "Aman"

\* the INSERTs _insert_asesmen builds when it is given a radius, named by
\* their columns and by the cast of jawaban; with a photo the two statements
\* with photo_path come first, and prefer_jsonb_cast puts ::jsonb first
asesmen_attempts(photo_path, prefer_jsonb_cast) ==
    (IF photo_path = NULL THEN <<>>
     ELSE IF prefer_jsonb_cast THEN <<"radius_photo_jsonb", "radius_photo_text">>
     ELSE <<"radius_photo_text", "radius_photo_jsonb">>)
    \o (IF prefer_jsonb_cast THEN <<"radius_jsonb", "radius_text">>
        ELSE <<"radius_text", "radius_jsonb">>)

\* what the store may take of them
AsesmenFaults ==
    SUBSET {"radius_photo_jsonb", "radius_photo_text", "radius_jsonb", "radius_text"}

\* _insert_asesmen: latitude and longitude go through _to_float and into the
\* row as they come out of it
insert_asesmen(tbl, data, prefer_jsonb_cast, accepted) ==
    LET lat_f == to_float(data.latitude)
        lon_f == to_float(data.longitude)
        r == insert_loop(asesmen_attempts(data.photo_path, prefer_jsonb_cast),
                         accepted, <<>>, <<>>)
        n == Cardinality(DOMAIN tbl)
        row == [is_active |-> NULL, latitude |-> lat_f, longitude |-> lon_f,
                skor |-> data.skor, status |-> data.status]
    IN  [tbl |-> [i \in (DOMAIN tbl) \cup (n + 1 .. n + Len(r.written)) |->
                     IF i \in DOMAIN tbl THEN tbl[i] ELSE row],
         ret |-> IF r.written = <<>> THEN "raise" ELSE "true",
         tried |-> r.tried]

\* pg_insert_asesmen_<kind>: only kesehatan prefers the ::jsonb cast
pg_insert_asesmen(tbl, kind, data, accepted) ==
    LET r == insert_asesmen(tbl[kind], data, kind = "kesehatan", accepted)
    IN  [tbl |-> [tbl EXCEPT ![kind] = r.tbl], ret |-> r.ret, tried |-> r.tried]

\* _get_asesmen_photo_path: no photo, the JSON list of the saved paths, or
\* an exception of the upload
PhotoInputs == {NULL, "[\"media/asesmen/a.jpg\"]", "raise"}

\* the answers a five-question form carries
AnswerInputs5 ==
    { <<"5", "5", "5", "5", "5">>, <<"3", "3", "3", "3", "3">>,
      <<"5", "5", "5", "3", "3">>, <<"", "0", "x", "9", "4">> }

\* the answers a ten-question form carries
AnswerInputs10 ==
    { <<"5", "5", "5", "5", "5", "5", "5", "5", "5", "5">>,
      <<"1", "1", "3", "5", "5", "5", "1", "3", "3", "3">>,
      <<"1", "1", "1", "1", "5", "5", "1", "5", "5", "5">>,
      <<"1", "5", "5", "5", "5", "5", "3", "5", "1", "5">>,
      <<"1", "3", "5", "5", "5", "3", "5", "5", "5", "5">>,
      <<"", "0", "x", "9", "4", "2", "2", "2", "2", "2">> }

\* what a submit_asesmen_<kind> handler did: the clamped answers, the score
\* and status it computed, the coordinates of the form, the INSERTs run,
\* whether a row was written and the category flashed
AsesmenOut(kind, answers, skor, status, c, tried, written, flash) ==
    [op |-> "submit_asesmen", kind |-> kind, answers |-> answers, skor |-> skor,
     status |-> status, latitude |-> c[1], longitude |-> c[2],
     tried |-> tried, written |-> written, flash |-> flash]

NoSkor == [num |-> 0, den |-> 1, low |-> FALSE]

\* the number of rows the assessment stores hold
asesmen_rows(tbl) == sum([k \in 1..Len(AsesmenOrder) |-> Cardinality(DOMAIN tbl[AsesmenOrder[k]])])

\* the body shared by submit_asesmen_kesehatan and the four ten-question
\* handlers, which differ in the questions and the weights only
submit_asesmen_scored(kind, inputs, weights) ==
    /\ asesmen_rows(asesmen) < asesmen_rows(InitAsesmen) + MaxAsesmen
    /\ IF ~session.logged_in
       THEN /\ resp' = Resp("submit_asesmen", 302, "danger", "none")
            /\ out' = AsesmenOut(kind, <<>>, NoSkor, "", <<"", "">>, <<>>, FALSE, "danger")
            /\ UNCHANGED asesmen
       ELSE \E photo_path \in PhotoInputs, c \in CoordInputs, form \in inputs :
            \E answers \in {[k \in DOMAIN form |-> ask_int_1_5(form[k])]} :
            \E skor \in {skor_100(answers, weights)} :
            \E status \in {status_of(skor)} :
            IF photo_path = "raise"
            THEN /\ resp' = Resp("submit_asesmen", 302, "danger", "none")
                 /\ out' = AsesmenOut(kind, <<>>, NoSkor, "", c, <<>>, FALSE, "danger")
                 /\ UNCHANGED asesmen
            ELSE \E accepted \in AsesmenFaults :
                 \E w \in {pg_insert_asesmen(asesmen, kind,
                               [skor |-> skor, status |-> status, latitude |-> c[1],
                                longitude |-> c[2], photo_path |-> photo_path],
                               accepted)} :
                 \E flash \in {IF w.ret = "true" THEN "success" ELSE "danger"} :
                    /\ asesmen' = w.tbl
                    /\ resp' = Resp("submit_asesmen", 302, flash, "none")
                    /\ out' = AsesmenOut(kind, answers, skor, status, c, w.tried,
                                         w.ret = "true", flash)
    /\ UNCHANGED <<session, logistik_permintaan, data_lokasi, admin_action_log,
                   nOk, nAuditFail>>

submit_asesmen_kesehatan ==
    submit_asesmen_scored("kesehatan", AnswerInputs5, weights_kesehatan)

submit_asesmen_pendidikan ==
    submit_asesmen_scored("pendidikan", AnswerInputs10, weights_10)

submit_asesmen_psikososial ==
    submit_asesmen_scored("psikososial", AnswerInputs10, weights_10)

submit_asesmen_infrastruktur ==
    submit_asesmen_scored("infrastruktur", AnswerInputs10, weights_10)

submit_asesmen_wash ==
    submit_asesmen_scored("wash", AnswerInputs10, weights_10)

\* submit_asesmen_kondisi: flood holds the points banjir_lat[] / banjir_lon[]
\* of the form and form its answers k1..k9.  The loop over the flood points
\* binds lat and lon again, float() and int() raise into the handler's
\* except, and the score is the constant 0
submit_asesmen_kondisi ==
    /\ asesmen_rows(asesmen) < asesmen_rows(InitAsesmen) + MaxAsesmen
    /\ IF ~session.logged_in
       THEN /\ resp' = Resp("submit_asesmen", 302, "danger", "none")
            /\ out' = AsesmenOut("kondisi", <<>>, NoSkor, "", <<"", "">>, <<>>, FALSE,
                                 "danger")
            /\ UNCHANGED asesmen
       ELSE \E photo_path \in PhotoInputs, c \in CoordInputs :
            \E flood \in { <<>>, << <<"3", "99">> >>, << <<"x", "99">> >> } :
            \E form \in { <<"5", "5", "5", "5", "5", "5", "5", "5", "5">>,
                           <<"1", "2", "3", "4", "5", "1", "2", "3", "4">>,
                           <<"5", "", "5", "5", "5", "5", "5", "5", "5">> } :
            \E raised \in {\/ photo_path = "raise"
                           \/ \E i \in DOMAIN flood :
                                 ParseFloat(flood[i][1]) = NoInt \/ ParseFloat(flood[i][2]) = NoInt
                           \/ \E k \in DOMAIN form : form[k] \notin DOMAIN IntOfText} :
            IF raised
            THEN /\ resp' = Resp("submit_asesmen", 302, "danger", "none")
                 /\ out' = AsesmenOut("kondisi", <<>>, NoSkor, "", c, <<>>, FALSE, "danger")
                 /\ UNCHANGED asesmen
            ELSE \E latlon \in {IF flood = <<>> THEN c ELSE flood[Len(flood)]} :
                 \E answers \in {[k \in DOMAIN form |-> IntOfText[form[k]]]} :
                 \E skor \in {NoSkor} :
                 \E status \in {status_of(skor)} :
                 \E accepted \in AsesmenFaults :
                 \E w \in {pg_insert_asesmen(asesmen, "kondisi",
                               [skor |-> skor, status |-> status,
                                latitude |-> latlon[1], longitude |-> latlon[2],
                                photo_path |-> photo_path],
                               accepted)} :
                 \E flash \in {IF w.ret = "true" THEN "success" ELSE "danger"} :
                    /\ asesmen' = w.tbl
                    /\ resp' = Resp("submit_asesmen", 302, flash, "none")
                    /\ out' = AsesmenOut("kondisi", answers, skor, status, latlon,
                                         w.tried, w.ret = "true", flash)
    /\ UNCHANGED <<session, logistik_permintaan, data_lokasi, admin_action_log,
                   nOk, nAuditFail>>

\* --------------------------------------------------- facility submissions
\* a < b for two texts as ORDER BY compares them, character by character in
\* the order of chars, a text before its extensions
RECURSIVE text_lt(_, _)
text_lt(a, b) ==
    LET chars == "-0123456789ABCDEFGHIJKLMNOPQRSTUVWXYZ"
        ord(c) == CHOOSE k \in 1..Len(chars) : SubSeq(chars, k, k) = c
    IN  IF a = "" THEN b # ""
        ELSE IF b = "" THEN FALSE
        ELSE IF SubSeq(a, 1, 1) = SubSeq(b, 1, 1)
             THEN text_lt(SubSeq(a, 2, Len(a)), SubSeq(b, 2, Len(b)))
        ELSE ord(SubSeq(a, 1, 1)) < ord(SubSeq(b, 1, 1))

\* pg_next_data_lokasi_id: base is the prefix of the type, a dash and the
\* code of the region (after _norm_kabkota has dropped "KABUPATEN " /
\* "KOTA "); last_id is the first id_lokasi LIKE base% in descending order
\* of the text, "" when there is none; n is one more than the number its
\* last three characters spell when they are digits, else 1; the id is base
\* and n in at least three digits
pg_next_data_lokasi_id(tbl, jenis_lokasi, nama_kabkota) ==
    LET prefix == CASE jenis_lokasi = "Posko Pengungsian" -> "P"
                    [] jenis_lokasi = "Gudang Logistik" -> "G"
                    [] OTHER -> "X"
        kabcode == CASE nama_kabkota = "KABUPATEN KARO" -> "KA"
                     [] nama_kabkota = "KOTA MEDAN" -> "ME"
                     [] OTHER -> "XX"
        base == prefix \o "-" \o kabcode
        like == {id \in DOMAIN tbl : Len(id) >= Len(base) /\ SubSeq(id, 1, Len(base)) = base}
        last_id == IF like = {} THEN ""
                   ELSE CHOOSE id \in like : \A other \in like \ {id} : text_lt(other, id)
        digit(c) == IF \E d \in 0..9 : ToString(d) = c
                    THEN CHOOSE d \in 0..9 : ToString(d) = c ELSE NoInt
        m == IF Len(last_id) < 3 THEN <<>>
             ELSE [k \in 1..3 |-> digit(SubSeq(last_id, Len(last_id) - 3 + k,
                                               Len(last_id) - 3 + k))]
        n == IF m = <<>> \/ \E k \in 1..3 : m[k] = NoInt THEN 1
             ELSE 100 * m[1] + 10 * m[2] + m[3] + 1
    IN  base \o (IF n < 10 THEN "00" ELSE IF n < 100 THEN "0" ELSE "") \o ToString(n)

\* pg_insert_data_lokasi: kwargs is the call's keyword arguments.  The
\* function is keyword-only and has no **kwargs, so a call naming anything
\* outside its parameter list raises TypeError before the body runs; so does
\* a pg_execute the store refuses.  The INSERT names neither waktu nor
\* is_active: the row takes the column defaults.
pg_insert_data_lokasi(tbl, kwargs, dbOk) ==
    LET params == {"id_lokasi", "jenis_lokasi", "nama_kabkota", "status_lokasi",
                   "tingkat_akses", "kondisi", "nama_lokasi", "alamat", "kecamatan",
                   "desa_kelurahan", "latitude", "longitude", "lokasi_text",
                   "catatan", "pic", "pic_hp", "photo_path"}
    IN  IF ~(DOMAIN kwargs \subseteq params) \/ ~dbOk
        THEN [tbl |-> tbl, ret |-> "raise", id |-> NULL]
        ELSE LET final_id == IF kwargs.id_lokasi \in {NULL, ""}
                             THEN pg_next_data_lokasi_id(tbl, kwargs.jenis_lokasi,
                                                         kwargs.nama_kabkota)
                             ELSE kwargs.id_lokasi
                 row == LokasiRow(kwargs.jenis_lokasi, to_float(kwargs.latitude),
                                  to_float(kwargs.longitude), NoInt)
             IN  [tbl |-> [i \in (DOMAIN tbl) \cup {final_id} |->
                              IF i = final_id THEN row ELSE tbl[i]],
                  ret |-> "true", id |-> final_id]

\* submit_lokasi: the login gate and the two gates on the form, each ending
\* the request with a danger flash, then the insert and the optional photo.  out keeps the form, the ids the store held before the
\* request, whether the store would take the INSERT, the categories flashed
\* in order and the id shown in the success message.  When the insert raised,
\* new_id is unbound and the photo step raises on reading it.
submit_lokasi ==
    /\ Cardinality(DOMAIN data_lokasi) < Cardinality(DOMAIN InitDataLokasi) + MaxLokasi
    /\ \E jenis_lokasi \in {"Posko Pengungsian", "Gudang Logistik", ""} :
       \E nama_kabkota \in {"KABUPATEN KARO", "KOTA MEDAN", ""} :
       \E nama_lokasi \in {"Posko Induk", ""} :
       \E c \in CoordInputs, photo_file \in BOOLEAN, dbOk \in BOOLEAN :
       \E form \in {[op |-> "submit_lokasi", logged_in |-> session.logged_in,
                     jenis_lokasi |-> jenis_lokasi, nama_kabkota |-> nama_kabkota,
                     nama_lokasi |-> nama_lokasi, latitude |-> c[1],
                     longitude |-> c[2], photo_file |-> photo_file,
                     store_ok |-> dbOk, before |-> DOMAIN data_lokasi]} :
          IF \/ ~session.logged_in
             \/ c[1] = "" \/ c[2] = ""
             \/ jenis_lokasi = "" \/ nama_kabkota = "" \/ nama_lokasi = ""
          THEN /\ out' = form @@ [flash |-> <<"danger">>, new_id |-> NULL]
               /\ resp' = Resp("submit_lokasi", 302, "danger", "none")
               /\ UNCHANGED data_lokasi
          ELSE \E r \in {pg_insert_data_lokasi(data_lokasi,
                            [id_lokasi |-> NULL, id_relawan |-> session.id_relawan,
                             jenis_lokasi |-> jenis_lokasi,
                             nama_kabkota |-> nama_kabkota,
                             status_lokasi |-> "Aktif", tingkat_akses |-> "Public",
                             kondisi |-> "Normal", nama_lokasi |-> nama_lokasi,
                             alamat |-> NULL, kecamatan |-> NULL,
                             desa_kelurahan |-> NULL, latitude |-> c[1],
                             longitude |-> c[2], lokasi_text |-> NULL,
                             catatan |-> NULL, pic |-> NULL, pic_hp |-> NULL,
                             photo_path |-> NULL, waktu |-> now],
                            dbOk)} :
               \E first \in {IF r.ret = "true" THEN "success" ELSE "danger"} :
               \E photoOk \in (IF photo_file /\ r.ret = "true" THEN BOOLEAN ELSE {TRUE}) :
               \E flash \in {IF photo_file /\ (r.ret # "true" \/ ~photoOk)
                             THEN <<first, "warning">> ELSE <<first>>} :
                  /\ data_lokasi' = r.tbl
                  /\ out' = form @@ [flash |-> flash, new_id |-> r.id]
                  /\ resp' = Resp("submit_lokasi", 302, flash[Len(flash)], "none")
    /\ UNCHANGED <<session, logistik_permintaan, asesmen, admin_action_log,
                   nOk, nAuditFail>>

\* ------------------------------------------------------------------ claims
MapOps == {"map_view", "api_refresh_map"}

\* C8: a check-in whose write to the store failed (the store refused the
\* coordinates, or every INSERT alternative raised) is not reported to the
\* user as successful: the message flashed is not the success message and its
\* category is not success.
C8_FailedPersistSignalsFailure ==
    (out.op = "submit_absensi" /\ ~out.written) =>
        out.message # "Absensi berhasil!" /\ resp.flash # "success"

\* C9: a map request (the page or the refresh) whose store call raised still
\* ends with status 200, and the read that raised shows as empty.
C9_MapReadsDegradeToEmpty ==
    out.op \in MapOps =>
        /\ out.code = 200 /\ out.success
        /\ out.failed = "data_lokasi" => out.data_lokasi = <<>>
        /\ out.failed = "status_map" => out.status_map = <<>>
        /\ out.failed = "relawan_list" => out.relawan_list = <<>>
        /\ out.failed = "relawan_lokasi" => out.relawan_lokasi = <<>>
        /\ out.failed = "permintaan_logistik" => out.permintaan_logistik = <<>>
        /\ out.failed \in AsesmenKinds => out.asesmen[out.failed] = <<>>

\* C10: a check-in whose latitude or longitude is missing or is no number is
\* rejected: cek_wilayah_geojson is not called, haversine_distance is not
\* called, the search ends with no facility and no success is reported.
C10_BadCoordinatesRejected ==
    (/\ out.op = "submit_absensi"
     /\ ParseFloat(out.latitude) = NoInt \/ ParseFloat(out.longitude) = NoInt) =>
        /\ ~out.classified
        /\ out.distances = 0
        /\ out.nearest = ""
        /\ out.message # "Absensi berhasil!"

\* C11: a submission (check-in, assessment, logistics request) whose
\* coordinates are missing or malformed never leaves a row in its store: every
\* stored row carries a latitude and a longitude.
C11_BadCoordinatesNeverStored ==
    LET located(row) == row.latitude # NoInt /\ row.longitude # NoInt
    IN  /\ \A i \in DOMAIN lokasi_relawan : located(lokasi_relawan[i])
        /\ \A k \in AsesmenKinds : \A i \in DOMAIN asesmen[k] : located(asesmen[k][i])
        /\ \A i \in DOMAIN logistik_permintaan : located(logistik_permintaan[i])

\* C12: a check-in inside a region, with the candidates the facility read
\* returned, is recorded with that region as lokasi and with the id of the
\* nearest candidate as lokasi_posko.
C12_CheckinRecordsRegionAndNearest ==
    (/\ out.op = "submit_absensi" /\ out.written
     /\ out.lokasi \in {"KOTA MEDAN", "KABUPATEN KARO"}
     /\ out.nearest # NoRow.id_lokasi)
    => LET row == lokasi_relawan[Len(lokasi_relawan)]
       IN  row.lokasi = out.lokasi /\ row.lokasi_posko = out.nearest

\* -------------------------------------------- the nearest-facility search
\* the candidate lists: facilities with coordinates, as rows of the
\* facility read, two on the same parallel and two on the same meridian, the
\* facilities of a part of them in every order
SearchInputs ==
    LET pool == { [id_lokasi |-> "P-A", latitude |-> 3, longitude |-> 98],
                  [id_lokasi |-> "P-B", latitude |-> 3, longitude |-> 100],
                  [id_lokasi |-> "P-C", latitude |-> 2, longitude |-> 99],
                  [id_lokasi |-> "P-D", latitude |-> 4, longitude |-> 99] }
    IN  { c \in UNION { [1..n -> pool] : n \in 0..Cardinality(pool) } :
            \A i, j \in DOMAIN c : i # j => c[i] # c[j] }

\* the search of submit_absensi run on a candidate list and a position
NearestSearch ==
    /\ \E candidates \in SearchInputs :
       \E latitude \in {"", "2", "3"}, longitude \in {"98", "99"} :
          out' = [op |-> "nearest_search", candidates |-> candidates,
                  latitude |-> latitude, longitude |-> longitude,
                  nearest |-> NearestLoop(candidates, latitude, longitude,
                                          NoInt, NoRow, 0).nearest]
    /\ UNCHANGED <<ledgerVars, cacheVars, lokasi_relawan, kabkota_geojson>>

\* C13: the search returns a candidate at minimal distance, the earliest in
\* the list among those at that distance; when no two candidates are at the
\* same distance every order of the list gives the same facility.
C13_NearestIsMinimalEarliest ==
    (out.op = "nearest_search" /\ out.candidates # <<>>) =>
       LET C == out.candidates
           d(c) == haversine_distance(out.latitude, out.longitude,
                                      c.latitude, c.longitude)
       IN  /\ \E i \in DOMAIN C :
                /\ C[i] = out.nearest
                /\ \A j \in DOMAIN C : d(C[i]) <= d(C[j])
                /\ \A j \in 1..(i - 1) : d(C[j]) > d(C[i])
           /\ (\A i, j \in DOMAIN C : i # j => d(C[i]) # d(C[j]))
              => \A f \in Permutations(DOMAIN C) :
                    NearestLoop([i \in DOMAIN C |-> C[f[i]]], out.latitude,
                                out.longitude, NoInt, NoRow, 0).nearest = out.nearest

\* two candidates tie at the minimal distance, the earlier of them is not
\* the head of the list, and the search returned it
C13_Witness ==
    /\ out.op = "nearest_search" /\ Len(out.candidates) = 4
    /\ out.latitude = "3" /\ out.longitude = "99"
    /\ out.candidates[1].id_lokasi = "P-C"
    /\ out.candidates[2].id_lokasi = "P-B"
    /\ out.nearest.id_lokasi = "P-B"

C15_ScoreIsWeightedShare ==
    (out.op = "submit_asesmen" /\ out.written) =>
       LET row == asesmen[out.kind][Cardinality(DOMAIN asesmen[out.kind])]
           W == IF out.kind = "kesehatan" THEN weights_kesehatan ELSE weights_10
           a == out.answers
       IN  /\ out.kind # "kondisi" =>
                 /\ \A k \in DOMAIN a : a[k] \in 1..5
                 /\ row.skor.num * sum([k \in DOMAIN W |-> 5 * W[k]])
                       = row.skor.den * sum([k \in DOMAIN W |-> a[k] * W[k]])
           /\ (\A k \in DOMAIN a : a[k] = 5) =>
                 /\ row.skor.num = row.skor.den
                 /\ row.status = "Kritis"

\* ------------------------------------------------- the ray casting alone
\* simple polygons on whole coordinates, counter-clockwise and open, each
\* with convex counter-clockwise pieces whose interiors make up its interior
Shapes ==
    { [ring |-> << <<0, 0>>, <<4, 0>>, <<4, 4>>, <<0, 4>> >>,
       parts |-> { << <<0, 0>>, <<4, 0>>, <<4, 4>>, <<0, 4>> >> }],
      [ring |-> << <<0, 0>>, <<4, 0>>, <<0, 4>> >>,
       parts |-> { << <<0, 0>>, <<4, 0>>, <<0, 4>> >> }],
      [ring |-> << <<0, 1>>, <<4, 0>>, <<2, 4>> >>,
       parts |-> { << <<0, 1>>, <<4, 0>>, <<2, 4>> >> }],
      [ring |-> << <<0, 0>>, <<4, 0>>, <<4, 2>>, <<2, 2>>, <<2, 4>>, <<0, 4>> >>,
       parts |-> { << <<0, 0>>, <<4, 0>>, <<4, 2>>, <<0, 2>> >>,
                   << <<0, 0>>, <<2, 0>>, <<2, 4>>, <<0, 4>> >> }] }

\* the ways a ring is written: from any vertex, in either direction, with
\* the first vertex repeated at the end (GeoJSON) or not
Writings(ring) ==
    LET n == Len(ring)
        from(r, k) == [i \in 1..n |-> r[((i + k - 1) % n) + 1]]
        back(r) == [i \in 1..n |-> r[n + 1 - i]]
        open == {from(ring, k) : k \in 0..(n - 1)}
                  \cup {from(back(ring), k) : k \in 0..(n - 1)}
    IN  open \cup {Append(r, r[1]) : r \in open}

\* a ring is read, in one of its writings
ReadRing ==
    /\ \E shape \in Shapes : \E polygon \in Writings(shape.ring) :
          out' = [op |-> "ring", polygon |-> polygon, parts |-> shape.parts]
    /\ UNCHANGED <<ledgerVars, cacheVars, lokasi_relawan, kabkota_geojson>>

\* point_in_polygon applied to a point and the ring read
PointInPolygon ==
    /\ out.op \in {"ring", "point_in_polygon"}
    /\ \E point \in (-1..5) \X (-1..5) :
          out' = [op |-> "point_in_polygon", point |-> point,
                  polygon |-> out.polygon, parts |-> out.parts,
                  inside |-> point_in_polygon(point, out.polygon)]
    /\ UNCHANGED <<ledgerVars, cacheVars, lokasi_relawan, kabkota_geojson>>

\* C16: for a simple polygon ring of at least three vertices
\* point_in_polygon is true of every point strictly inside the polygon and
\* false of every point strictly outside its bounding box.
C16_InsideTrueOutsideBoxFalse ==
    out.op = "point_in_polygon" =>
       LET p == out.point
           ring == out.polygon
           left(a, b) == (b[1] - a[1]) * (p[2] - a[2]) - (b[2] - a[2]) * (p[1] - a[1]) > 0
           within(part) ==
              \A i \in DOMAIN part : left(part[i], part[(i % Len(part)) + 1])
           outside_box ==
              \/ \A i \in DOMAIN ring : p[1] < ring[i][1]
              \/ \A i \in DOMAIN ring : p[1] > ring[i][1]
              \/ \A i \in DOMAIN ring : p[2] < ring[i][2]
              \/ \A i \in DOMAIN ring : p[2] > ring[i][2]
       IN  /\ Len(ring) >= 3
           /\ (\E part \in out.parts : within(part)) => out.inside
           /\ outside_box => ~out.inside

\* a point in the upper arm of the L-shaped polygon, written clockwise and
\* closed, was found inside
C16_Witness ==
    /\ out.op = "point_in_polygon" /\ out.inside
    /\ out.polygon = << <<0, 0>>, <<0, 4>>, <<2, 4>>, <<2, 2>>, <<4, 2>>, <<4, 0>>, <<0, 0>> >>
    /\ out.point = <<1, 3>>

\* --------------------------------------------------- the classifier alone
\* the files cek_wilayah_geojson may find: none, one that is no JSON, a
\* document without features, sound regions (the two of public.geo_kabkota
\* and one that overlaps both) in every selection and order, and the two
\* regions of the store with a faulty one put in.  The faulty region lies
\* around every position and has no geometry, a geometry of another type, no
\* coordinates, an empty list of rings, an empty ring, or a vertex that is
\* no pair.
DatasetInputs ==
    LET Feature(kabkota, geometry) ==
            [geometry |-> geometry, properties |-> [kabkota |-> kabkota]]
        base == pg_get_kabkota_featurecollection
        SoundFeatures ==
            { base[i] : i \in DOMAIN base }
            \cup { Feature("KABUPATEN DELI SERDANG",
                           [type |-> "Polygon",
                            coordinates |-> << Ring(98, 2, 100, 4) >>]) }
        FaultyFeatures ==
            { [properties |-> [kabkota |-> "KABUPATEN LANGKAT"]],
              Feature("KABUPATEN LANGKAT", [type |-> "GeometryCollection"]),
              Feature("KABUPATEN LANGKAT", [type |-> "Polygon"]),
              Feature("KABUPATEN LANGKAT", [type |-> "Polygon", coordinates |-> <<>>]),
              Feature("KABUPATEN LANGKAT",
                      [type |-> "Polygon", coordinates |-> << <<>> >>]),
              Feature("KABUPATEN LANGKAT",
                      [type |-> "Polygon",
                       coordinates |-> << << <<97, 1>>, <<100>>, <<100, 4>>,
                                             <<97, 4>>, <<97, 1>> >> >>]) }
        sound == { c \in UNION { [1..n -> SoundFeatures] : n \in 0..3 } :
                     \A i, j \in DOMAIN c : i # j => c[i] # c[j] }
        put(f, k) == SubSeq(base, 1, k) \o <<f>> \o SubSeq(base, k + 1, Len(base))
        faulty == { put(f, k) : f \in FaultyFeatures, k \in 0..Len(base) }
    IN  { [exists |-> FALSE, mtime |-> 0, features |-> <<>>],
          [exists |-> TRUE, mtime |-> 0, corrupt |-> TRUE],
          [exists |-> TRUE, mtime |-> 0] }
        \cup { [exists |-> TRUE, mtime |-> 0, features |-> c] : c \in sound \cup faulty }

\* the file static/data/kabkota_sumut.json is put in place
WriteDataset ==
    /\ \E file \in DatasetInputs : kabkota_geojson' = file
    /\ out' = [op |-> "none"]
    /\ UNCHANGED <<ledgerVars, cacheVars, lokasi_relawan>>

\* cek_wilayah_geojson, with its call of ensure_kabkota_geojson_ready: out
\* keeps the file as the call found it and as it read it, the time, the
\* value of FORCE_GEOJSON_REFRESH and whether the store answers the query
CekWilayah ==
    /\ \E user_lat \in {"1", "2", "3", "4", "abc"}, user_lon \in {"97", "98", "99", "100"} :
       \E geoOk \in GeoFaults(TRUE), env \in ForceInputs :
       \E file \in {ensure_kabkota_geojson_ready(kabkota_geojson, now, geoOk, env)} :
          /\ kabkota_geojson' = file
          /\ out' = [op |-> "cek_wilayah_geojson", user_lat |-> user_lat,
                     user_lon |-> user_lon, before |-> kabkota_geojson, at |-> now,
                     env |-> env, store_ok |-> geoOk, file |-> file,
                     result |-> cek_wilayah_geojson(file, user_lat, user_lon)]
    /\ UNCHANGED <<ledgerVars, cacheVars, lokasi_relawan>>

\* the file cannot be read as a document
Unreadable(file) == ~file.exists \/ "corrupt" \in DOMAIN file

\* the boundary of a Polygon feature cannot be walked: no ring at all, or a
\* vertex that is no pair
Broken(feature) ==
    /\ "geometry" \in DOMAIN feature
    /\ "coordinates" \in DOMAIN feature.geometry
    /\ feature.geometry.type = "Polygon"
    /\ \/ feature.geometry.coordinates = <<>>
       \/ \E i \in DOMAIN feature.geometry.coordinates[1] :
             Len(feature.geometry.coordinates[1][i]) # 2

\* the feature has no boundary to test
Hollow(feature) ==
    \/ "geometry" \notin DOMAIN feature
    \/ feature.geometry.type \notin {"Polygon", "MultiPolygon"}
    \/ "coordinates" \notin DOMAIN feature.geometry
    \/ feature.geometry.coordinates = << <<>> >>

\* a sound feature has a ring around the point
Contains(feature, point) ==
    /\ ~Hollow(feature) /\ ~Broken(feature)
    /\ IF feature.geometry.type = "Polygon"
       THEN point_in_polygon(point, feature.geometry.coordinates[1])
       ELSE \E k \in DOMAIN feature.geometry.coordinates :
               point_in_polygon(point, feature.geometry.coordinates[k][1])

C20_FirstContainingRegion ==
    (/\ out.op = "cek_wilayah_geojson" /\ ~Unreadable(out.file)
     /\ "features" \in DOMAIN out.file
     /\ \A i \in DOMAIN out.file.features :
           ~Broken(out.file.features[i]) /\ ~Hollow(out.file.features[i])
     /\ ParseFloat(out.user_lat) # NoInt)
    => LET features == out.file.features
           point == <<ParseFloat(out.user_lon), ParseFloat(out.user_lat)>>
           holders == {i \in DOMAIN features : Contains(features[i], point)}
       IN  /\ holders # {} =>
                 \E i \in holders :
                    /\ \A j \in holders : i <= j
                    /\ out.result = features[i].properties.kabkota
           /\ out.result = "Luar Wilayah Sumut" <=> holders = {}

\* the point is in two regions and in the second polygon of the
\* multipolygon that comes first, whose name was returned
C20_Witness ==
    /\ out.op = "cek_wilayah_geojson" /\ out.user_lat = "4" /\ out.user_lon = "100"
    /\ "features" \in DOMAIN out.file /\ Len(out.file.features) = 3
    /\ out.file.features[1].properties.kabkota = "KOTA MEDAN"
    /\ out.file.features[2].properties.kabkota = "KABUPATEN KARO"
    /\ out.file.features[3].properties.kabkota = "KABUPATEN DELI SERDANG"
    /\ out.result = "KABUPATEN KARO"

\* ------------------------------------------------- the facility submission
\* C18: a facility submission by a logged-in volunteer that carries a type, a
\* region, a name and both coordinates, the store taking the INSERT, creates
\* exactly one record: the store holds the ids it held before and one more,
\* an id the server made, that record is active, and the id is the one the
\* answer shows with a success message.
C18_FacilitySubmissionCreatesOneRecord ==
    (/\ out.op = "submit_lokasi" /\ out.logged_in /\ out.store_ok
     /\ out.jenis_lokasi # "" /\ out.nama_kabkota # "" /\ out.nama_lokasi # ""
     /\ out.latitude # "" /\ out.longitude # "")
    => /\ out.new_id \notin out.before
       /\ DOMAIN data_lokasi = out.before \cup {out.new_id}
       /\ data_lokasi[out.new_id].is_active = "true"
       /\ out.flash[1] = "success"

\* ----------------------------------------------------- the insert calls
\* one call of pg_insert_lokasi_relawan on the check-in store: out keeps the
\* statements the store would take, those the call ran, what it returned and
\* the number of rows the store gained
InsertLokasiRelawan ==
    /\ Len(lokasi_relawan) < MaxCheckins
    /\ \E c \in CoordInputs, accepted \in InsertFaults :
       \E r \in {pg_insert_lokasi_relawan(lokasi_relawan,
                     [id_relawan |-> "R0002", latitude |-> c[1], longitude |-> c[2],
                      lokasi |-> "KOTA MEDAN", lokasi_posko |-> ""],
                     now, accepted)} :
          /\ lokasi_relawan' = r.tbl
          /\ out' = [op |-> "insert", call |-> "pg_insert_lokasi_relawan",
                     kind |-> "", photo_path |-> NULL, latitude |-> c[1],
                     longitude |-> c[2], accepted |-> accepted, tried |-> r.tried,
                     ret |-> r.ret, rows |-> Len(r.tbl) - Len(lokasi_relawan)]
    /\ UNCHANGED <<ledgerVars, cacheVars, kabkota_geojson>>

\* one call of pg_insert_asesmen_<kind> on the assessment stores
InsertAsesmen ==
    /\ asesmen_rows(asesmen) < asesmen_rows(InitAsesmen) + MaxAsesmen
    /\ \E kind \in AsesmenKinds, photo_path \in PhotoInputs \ {"raise"} :
       \E c \in CoordInputs, accepted \in AsesmenFaults :
       \E r \in {pg_insert_asesmen(asesmen, kind,
                     [skor |-> NoSkor, status |-> "Aman", latitude |-> c[1],
                      longitude |-> c[2], photo_path |-> photo_path],
                     accepted)} :
          /\ asesmen' = r.tbl
          /\ out' = [op |-> "insert", call |-> "pg_insert_asesmen",
                     kind |-> kind, photo_path |-> photo_path, latitude |-> c[1],
                     longitude |-> c[2], accepted |-> accepted, tried |-> r.tried,
                     ret |-> r.ret, rows |-> asesmen_rows(r.tbl) - asesmen_rows(asesmen)]
    /\ UNCHANGED <<session, logistik_permintaan, data_lokasi, admin_action_log, resp,
                   nOk, nAuditFail, cacheVars, lokasi_relawan, kabkota_geojson>>

\* C19: one insert call of a check-in or of an assessment runs its INSERT
\* statements in their fixed order, none of them twice, and runs none after
\* one that the store took; the store gains at most one row: exactly one when
\* the call returns true, and none when it raises, which it does after the
\* last statement failed (or, for a check-in, before the first on coordinates
\* that are no numbers).
C19_InsertTriesInOrderWritesAtMostOne ==
    out.op = "insert" =>
        LET order == IF out.call = "pg_insert_lokasi_relawan"
                     THEN <<"lokasi_posko", "waktu", "timestamp">>
                     ELSE asesmen_attempts(out.photo_path, out.kind = "kesehatan")
            n == Len(out.tried)
        IN  /\ n <= Len(order)
            /\ \A i \in 1..n : out.tried[i] = order[i]
            /\ \A i, j \in 1..n : i # j => out.tried[i] # out.tried[j]
            /\ \A i \in 1..n : out.tried[i] \in out.accepted => i = n
            /\ out.rows \in {0, 1}
            /\ out.ret \in {"true", "raise"}
            /\ out.ret = "true" => out.rows = 1 /\ n >= 1 /\ out.tried[n] \in out.accepted
            /\ out.ret = "raise" =>
                  /\ out.rows = 0
                  /\ n = 0 \/ (n = Len(order) /\ \A i \in 1..n : out.tried[i] \notin out.accepted)
                  /\ n = 0 => /\ out.call = "pg_insert_lokasi_relawan"
                              /\ ParseFloat(out.latitude) = NoInt
                                 \/ ParseFloat(out.longitude) = NoInt

\* an assessment insert with a photo whose first two statements the store
\* refused and whose third it took, though it would have taken the fourth
\* too: three statements run, one row written
C19_Witness ==
    /\ out.op = "insert" /\ out.call = "pg_insert_asesmen" /\ out.kind = "kesehatan"
    /\ out.photo_path # NULL
    /\ out.accepted = {"radius_jsonb", "radius_text"}
    /\ out.tried = <<"radius_photo_jsonb", "radius_photo_text", "radius_jsonb">>
    /\ out.ret = "true" /\ out.rows = 1

\* ------------------------------------------------- the region snapshot
\* C21: a classify call queries the regions again exactly when the file is
\* absent, its age has reached GEOJSON_TTL or FORCE_GEOJSON_REFRESH is set:
\* then, the store answering, the file it reads is the one written at that
\* moment from the store, and otherwise the file is the one it found.  When
\* the query fails the file stays as it was found, and a file that was there
\* still gives the answer.
C21_SnapshotRefetchedWhenStale ==
    out.op = "cek_wilayah_geojson" =>
        LET due == \/ ~out.before.exists
                   \/ out.at - out.before.mtime >= GEOJSON_TTL
                   \/ out.env # "0"
            point == <<ParseFloat(out.user_lon), ParseFloat(out.user_lat)>>
        IN  /\ (due /\ out.store_ok) =>
                  out.file = [exists |-> TRUE, mtime |-> out.at,
                              features |-> pg_get_kabkota_featurecollection]
            /\ ~due => out.file = out.before
            /\ (due /\ ~out.store_ok) =>
                  /\ out.file = out.before
                  /\ (out.before.exists /\ ParseFloat(out.user_lat) # NoInt) =>
                        out.result = FirstRegion(out.before.features, point)

\* a file whose age is exactly GEOJSON_TTL, the flag not set, the store
\* down: the file is kept and the point is still found in KOTA MEDAN
C21_Witness ==
    /\ out.op = "cek_wilayah_geojson"
    /\ out.before.exists /\ out.at - out.before.mtime = GEOJSON_TTL
    /\ out.env = "0" /\ ~out.store_ok
    /\ out.file = out.before /\ kabkota_geojson = out.before
    /\ out.user_lat = "2" /\ out.user_lon = "98" /\ out.result = "KOTA MEDAN"

\* ------------------------------------------------ the answers of a form
\* _ask_int_1_5 on two fields of a form.  A field carries a numeral inside
\* or outside 1..5, with a sign or blanks, a decimal fraction, a word or
\* nothing, or is absent
AskAnswers ==
    /\ \E a, b \in {"1", "2", "3", "4", "5", "0", "6", "9", "12", "-3", "-1",
                    " 4 ", "+2", "4.0", "x", "", NULL} :
          out' = [op |-> "ask_int_1_5", form |-> <<a, b>>,
                  answers |-> <<ask_int_1_5(a), ask_int_1_5(b)>>]
    /\ UNCHANGED <<ledgerVars, cacheVars, lokasi_relawan, kabkota_geojson>>

\* C22, as claimed: an answer that is an integer of 1..5 is kept and every
\* other answer, out of range or no integer, becomes 1.
C22_OutOfRangeBecomesOne ==
    out.op = "ask_int_1_5" =>
        \A k \in DOMAIN out.form :
            LET val == out.form[k]
            IN  out.answers[k] =
                    IF val \in DOMAIN IntOfText /\ IntOfText[val] \in 1..5
                    THEN IntOfText[val] ELSE 1

\* C22: every answer is normalised to an integer of 1..5: an integer of 1..5
\* is kept, an integer above 5 becomes 5, an integer below 1 becomes 1 and
\* an answer that is no integer becomes 1.
C22_AnswerClampedToRange ==
    out.op = "ask_int_1_5" =>
        \A k \in DOMAIN out.form :
            LET val == out.form[k]
                v == out.answers[k]
            IN  /\ v \in 1..5
                /\ val \notin DOMAIN IntOfText => v = 1
                /\ val \in DOMAIN IntOfText =>
                      /\ IntOfText[val] \in 1..5 => v = IntOfText[val]
                      /\ IntOfText[val] > 5 => v = 5
                      /\ IntOfText[val] < 1 => v = 1

\* a form with 9 in one field and a word in the other: 5 and 1
C22_Witness ==
    /\ out.op = "ask_int_1_5"
    /\ out.form = <<"9", "x">> /\ out.answers = <<5, 1>>

\* ---------------------------------------------------- the generated ids
\* ids of shelters of KABUPATEN KARO with their sequence numbers
KaroShelterIds ==
    [id \in {"P-KA001", "P-KA002", "P-KA009", "P-KA010", "P-KA100", "P-KA999",
             "P-KA1000"} |->
        CASE id = "P-KA001" -> 1 [] id = "P-KA002" -> 2 [] id = "P-KA009" -> 9
          [] id = "P-KA010" -> 10 [] id = "P-KA100" -> 100 [] id = "P-KA999" -> 999
          [] OTHER -> 1000]

\* pg_next_data_lokasi_id for a shelter of KABUPATEN KARO over a store that
\* holds ids of its prefix and of another
NextDataLokasiId ==
    /\ \E mine \in SUBSET DOMAIN KaroShelterIds :
       \E others \in SUBSET {"G-KA005"} :
          out' = [op |-> "pg_next_data_lokasi_id", existing |-> mine \cup others,
                  id |-> pg_next_data_lokasi_id(
                             [i \in mine \cup others |-> LokasiRow("", NoInt, NoInt, 0)],
                             "Posko Pengungsian", "KABUPATEN KARO")]
    /\ UNCHANGED <<ledgerVars, cacheVars, lokasi_relawan, kabkota_geojson>>

\* C23: for every set of existing ids the generated id is the prefix
\* followed by a sequence number of three digits, zero-padded, that is one
\* more than the highest sequence number among the existing ids of that
\* prefix, and 1 when there is none.
C23_NextIdIsHighestPlusOne ==
    out.op = "pg_next_data_lokasi_id" =>
        LET mine == out.existing \cap DOMAIN KaroShelterIds
            n == IF mine = {} THEN 1
                 ELSE KaroShelterIds[CHOOSE id \in mine :
                          \A o \in mine : KaroShelterIds[o] <= KaroShelterIds[id]] + 1
        IN  /\ out.id = "P-KA" \o (IF n < 10 THEN "00" ELSE IF n < 100 THEN "0" ELSE "")
                               \o ToString(n)
            /\ Len(out.id) = Len("P-KA") + 3

\* ------------------------------------------------ the type of a facility
\* C24, as claimed: a type change that names a type outside the allowed set
\* of facility types is rejected, the facility unchanged and no audit entry
\* written, whether or not the reference list can be read.
C24_UnlistedTypeRejected ==
    [][ (/\ resp'.op = "update_lokasi_jenis"
         /\ resp'.val \notin RefJenis \cup {"none"})
        => /\ resp'.code # 200
           /\ data_lokasi' = data_lokasi
           /\ admin_action_log' = admin_action_log ]_vars

\* C24: a type change is checked against the reference list the request
\* read: when that list has entries and the type is not among them the
\* request is answered 400, the facility is unchanged and no audit entry is
\* written; a type change is accepted only for a type of the list, or when
\* the list came back empty because it could not be read.
C24_UnlistedTypeRejectedWhenListRead ==
    [][ (resp'.op = "update_lokasi_jenis" /\ out'.op = "update_lokasi_jenis")
        => /\ (out'.allowed # {} /\ resp'.val \notin out'.allowed)
                 => /\ resp'.code = 400
                    /\ resp'.audit = "none"
                    /\ data_lokasi' = data_lokasi
                    /\ admin_action_log' = admin_action_log
           /\ resp'.code = 200
                 => resp'.val \in out'.allowed \/ out'.allowed = {} ]_vars

\* the list was read and Warung, which is not on it, was refused
C24_Witness ==
    /\ resp.op = "update_lokasi_jenis" /\ out.op = "update_lokasi_jenis"
    /\ out.allowed = RefJenis /\ resp.val = "Warung"
    /\ resp.code = 400 /\ resp.target = "present"
    /\ admin_action_log = <<>>
    /\ \A id \in DOMAIN data_lokasi : data_lokasi[id].jenis_lokasi # "Warung"

\* =========================================== requests running side by side
\* the threads of the server that handle requests at the same time
Workers == {"w1", "w2"}

InitInflight == inflight = [w \in Workers |-> [pc |-> "idle"]]

\* the cache test of get_rekap_from_spreadsheet or of
\* get_logistik_keluar_grouped failing in a request: the request goes on to
\* its source.  (A request whose test succeeds returns the entry and changes
\* nothing.)
cache_miss ==
    /\ \E w \in Workers, fn \in CacheFns :
          /\ inflight[w].pc = "idle"
          /\ ~cache_hit(CacheOf(fn), now)
          /\ inflight' = [inflight EXCEPT ![w] = [pc |-> "fetch", fn |-> fn]]
    /\ UNCHANGED <<ledgerVars, cacheVars, mapVars>>

\* sheet.get_all_records() and the cleaning or grouping of the rows; an
\* exception ends the request in its except clause, the entry untouched
cache_fetch ==
    /\ \E w \in Workers, srcOk \in BOOLEAN :
          /\ inflight[w].pc = "fetch"
          /\ \E f \in {IF inflight[w].fn = "rekap" THEN FetchRekap(sheet_rekap, srcOk)
                       ELSE FetchDistribusi(sheet_distribusi, srcOk)} :
                inflight' = [inflight EXCEPT ![w] =
                                IF f.ok THEN [pc |-> "store_data", fn |-> inflight[w].fn,
                                              data |-> f.value]
                                ELSE [pc |-> "failed", fn |-> inflight[w].fn]]
    /\ UNCHANGED <<ledgerVars, cacheVars, mapVars>>

\* CACHE_REKAP["data"] = cleaned_data / CACHE_DISTRIBUSI["data"] = final_list
cache_store_data ==
    /\ \E w \in Workers :
          /\ inflight[w].pc = "store_data"
          /\ IF inflight[w].fn = "rekap"
             THEN /\ CACHE_REKAP' = [CACHE_REKAP EXCEPT !.data = inflight[w].data]
                  /\ UNCHANGED CACHE_DISTRIBUSI
             ELSE /\ CACHE_DISTRIBUSI' = [CACHE_DISTRIBUSI EXCEPT !.data = inflight[w].data]
                  /\ UNCHANGED CACHE_REKAP
          /\ inflight' = [inflight EXCEPT ![w].pc = "store_timestamp"]
    /\ UNCHANGED <<ledgerVars, mapVars, now, sheet_rekap, sheet_distribusi, answer,
                   last_read, last_fetch>>

\* as cache_store_timestamp, with the store of the timestamp left out
cache_store_timestamp_skipped ==
    /\ \E w \in Workers :
          /\ inflight[w].pc = "store_timestamp"
          /\ inflight' = [inflight EXCEPT ![w] =
                             [pc |-> "done", fn |-> inflight[w].fn,
                              data |-> inflight[w].data, timestamp |-> now]]
    /\ UNCHANGED <<ledgerVars, mapVars, cacheVars>>

\* CACHE_REKAP["timestamp"] = time.time() / CACHE_DISTRIBUSI["timestamp"] =
\* time.time(); the request is done and inflight keeps what it stored
cache_store_timestamp ==
    /\ \E w \in Workers :
          /\ inflight[w].pc = "store_timestamp"
          /\ IF inflight[w].fn = "rekap"
             THEN /\ CACHE_REKAP' = [CACHE_REKAP EXCEPT !.timestamp = now]
                  /\ UNCHANGED CACHE_DISTRIBUSI
             ELSE /\ CACHE_DISTRIBUSI' = [CACHE_DISTRIBUSI EXCEPT !.timestamp = now]
                  /\ UNCHANGED CACHE_REKAP
          /\ inflight' = [inflight EXCEPT ![w] =
                             [pc |-> "done", fn |-> inflight[w].fn,
                              data |-> inflight[w].data, timestamp |-> now]]
    /\ UNCHANGED <<ledgerVars, mapVars, now, sheet_rekap, sheet_distribusi, answer,
                   last_read, last_fetch>>

\* the requests that refreshed the entry of fn and are done, and those that
\* are still at it
Refreshed(fn) == {w \in Workers : inflight[w].pc = "done" /\ inflight[w].fn = fn}
Refreshing(fn) ==
    {w \in Workers : inflight[w].pc \in {"fetch", "store_data", "store_timestamp"}
                     /\ inflight[w].fn = fn}

status_begin ==
    /\ AdminGate(session) = 0
    /\ \E w \in Workers, id_raw \in IdRawInputs, status_new \in StatusInputs :
          /\ inflight[w].pc = "idle"
          /\ permintaan_status_check(id_raw, status_new) = 0
          /\ inflight' = [inflight EXCEPT ![w] =
                             [pc |-> "select_old", id_raw |-> id_raw,
                              id |-> ParseInt(id_raw), status_new |-> status_new]]
    /\ UNCHANGED <<ledgerVars, cacheVars, mapVars>>

\* where a request of api_update_permintaan_status ends: the answer, and
\* what pg_update_logistik_permintaan_status saw and did (replaced is the
\* status its UPDATE overwrote, entry the place of its audit entry in the
\* log, 0 when it wrote none)
status_end(w, ret, audit, old_status, replaced, entry) ==
    /\ inflight' = [inflight EXCEPT ![w] =
                       [pc |-> "status_done", id |-> inflight[w].id,
                        status_new |-> inflight[w].status_new, ret |-> ret,
                        old_status |-> old_status, replaced |-> replaced,
                        entry |-> entry]]
    /\ resp' = FullResp("update_permintaan_status", ModCode(ret, 500), "none", audit,
                        Why(ret), TargetOf(logistik_permintaan, inflight[w].id),
                        IF ret = "true" THEN inflight[w].id_raw ELSE "none",
                        inflight[w].status_new)
    /\ Count(ModCode(ret, 500), audit)

\* 1) SELECT status_permintaan FROM .. WHERE id=%s
status_select_old ==
    /\ \E w \in Workers, selOk \in BOOLEAN :
          /\ inflight[w].pc = "select_old"
          /\ IF ~selOk THEN status_end(w, "raise", "none", "", "", 0)
             ELSE IF inflight[w].id \notin DOMAIN logistik_permintaan
             THEN status_end(w, "false", "none", "", "", 0)
             ELSE /\ inflight' = [inflight EXCEPT ![w] =
                        [pc |-> "update", id_raw |-> inflight[w].id_raw,
                         id |-> inflight[w].id,
                         status_new |-> inflight[w].status_new,
                         old_status |->
                             logistik_permintaan[inflight[w].id].status_permintaan]]
                  /\ UNCHANGED <<resp, nOk, nAuditFail>>
    /\ UNCHANGED <<session, logistik_permintaan, asesmen, data_lokasi,
                   admin_action_log, cacheVars, mapVars>>

\* 2) UPDATE .. SET status_permintaan=%s WHERE id=%s RETURNING id, committed
\* on its own by pg_fetchall
status_update ==
    /\ \E w \in Workers, updOk \in BOOLEAN :
          /\ inflight[w].pc = "update"
          /\ IF ~updOk
             THEN /\ status_end(w, "raise", "none", inflight[w].old_status, "", 0)
                  /\ UNCHANGED logistik_permintaan
             ELSE /\ logistik_permintaan' =
                        [logistik_permintaan EXCEPT
                            ![inflight[w].id].status_permintaan = inflight[w].status_new]
                  /\ inflight' = [inflight EXCEPT ![w] =
                        [pc |-> "log", id_raw |-> inflight[w].id_raw,
                         id |-> inflight[w].id,
                         status_new |-> inflight[w].status_new,
                         old_status |-> inflight[w].old_status,
                         replaced |->
                             logistik_permintaan[inflight[w].id].status_permintaan]]
                  /\ UNCHANGED <<resp, nOk, nAuditFail>>
    /\ UNCHANGED <<session, asesmen, data_lokasi, admin_action_log,
                   cacheVars, mapVars>>

\* 3) pg_insert_admin_action_log(.. payload old, new ..) inside try/except
status_log ==
    /\ \E w \in Workers, f \in AuditFaults :
          /\ inflight[w].pc = "log"
          /\ \E a \in {pg_insert_admin_action_log(admin_action_log,
                         [action |-> "CHANGE_STATUS_LOGISTIK",
                          target_kind |-> "permintaan_logistik",
                          target_id |-> inflight[w].id,
                          target_ref |-> NULL,
                          payload |-> [kind |-> "status_logistik",
                                       id |-> inflight[w].id,
                                       old |-> inflight[w].old_status,
                                       new |-> inflight[w].status_new]],
                         f[1], f[2])} :
                /\ admin_action_log' = a.log
                /\ status_end(w, "true", AuditTag(a.ret), inflight[w].old_status,
                              inflight[w].replaced,
                              IF a.ret THEN Len(a.log) ELSE 0)
    /\ UNCHANGED <<session, logistik_permintaan, asesmen, data_lokasi,
                   cacheVars, mapVars>>

\* C26: when status transitions on the same logistics request run side by
\* side, the audit entry of each records as old the status that its own
\* update replaced.
C26_AuditOldIsReplacedStatus ==
    \A w \in Workers :
        (inflight[w].pc = "status_done" /\ inflight[w].entry > 0) =>
            admin_action_log[inflight[w].entry].payload.old = inflight[w].replaced

\* ---------------------------- pg_insert_data_lokasi, statement by statement
\* a call pg_insert_data_lokasi(id_lokasi=None, jenis_lokasi=..,
\* nama_kabkota=.., ..) with the parameters the function names
insert_lokasi_begin ==
    /\ \E w \in Workers :
       \E jenis_lokasi \in {"Posko Pengungsian", "Gudang Logistik"} :
       \E nama_kabkota \in {"KABUPATEN KARO", "KOTA MEDAN"} :
       \E c \in {<<"2", "98">>, <<"3", "99">>} :
          /\ inflight[w].pc = "idle"
          /\ inflight' = [inflight EXCEPT ![w] =
                [pc |-> "next_id",
                 kwargs |-> [id_lokasi |-> NULL, jenis_lokasi |-> jenis_lokasi,
                             nama_kabkota |-> nama_kabkota,
                             status_lokasi |-> "Aktif", tingkat_akses |-> "Public",
                             kondisi |-> "Normal", nama_lokasi |-> "Posko Induk",
                             latitude |-> c[1], longitude |-> c[2]]]]
    /\ UNCHANGED <<ledgerVars, cacheVars, mapVars>>

\* final_id = pg_next_data_lokasi_id(jenis_lokasi, nama_kabkota): the SELECT
\* of the highest id under the prefix, in a connection of its own
insert_lokasi_next_id ==
    /\ \E w \in Workers, dbOk \in BOOLEAN :
          /\ inflight[w].pc = "next_id"
          /\ inflight' = [inflight EXCEPT ![w] =
                IF dbOk
                THEN [pc |-> "insert", kwargs |-> inflight[w].kwargs,
                      final_id |-> pg_next_data_lokasi_id(data_lokasi,
                                      inflight[w].kwargs.jenis_lokasi,
                                      inflight[w].kwargs.nama_kabkota)]
                ELSE [pc |-> "lokasi_done", kwargs |-> inflight[w].kwargs,
                      final_id |-> NULL, ret |-> "raise"]]
    /\ UNCHANGED <<ledgerVars, cacheVars, mapVars>>

\* pg_execute(INSERT INTO data_lokasi ..) under final_id.  Whether id_lokasi
\* carries a unique key is the schema's matter: with the id taken the INSERT
\* either raises or adds a second row under it (the table of the model,
\* keyed by id, then shows the later row)
insert_lokasi_execute ==
    /\ \E w \in Workers, dbOk \in BOOLEAN, unique \in BOOLEAN :
          /\ inflight[w].pc = "insert"
          /\ \E r \in {pg_insert_data_lokasi(data_lokasi,
                          [inflight[w].kwargs EXCEPT !.id_lokasi = inflight[w].final_id],
                          dbOk /\ ~(unique /\ inflight[w].final_id \in DOMAIN data_lokasi))} :
                /\ data_lokasi' = r.tbl
                /\ inflight' = [inflight EXCEPT ![w] =
                      [pc |-> "lokasi_done", kwargs |-> inflight[w].kwargs,
                       final_id |-> inflight[w].final_id, ret |-> r.ret]]
    /\ UNCHANGED <<session, logistik_permintaan, asesmen, admin_action_log, resp,
                   nOk, nAuditFail, cacheVars, mapVars>>

\* the calls that hold a generated id: those about to insert under it and
\* those whose insert went through
HoldsId(w) ==
    \/ inflight[w].pc = "insert"
    \/ inflight[w].pc = "lokasi_done" /\ inflight[w].ret = "true"

C28_NonAdminModerationRefused ==
    [][(resp'.op \in ModOps /\ (~session.logged_in \/ ~session.is_admin)) =>
          /\ resp'.code = (IF session.logged_in THEN 403 ELSE 401)
          /\ resp'.audit = "none"
          /\ UNCHANGED <<logistik_permintaan, asesmen, data_lokasi, admin_action_log>>]_vars

\* a logged-in volunteer without the admin flag asked for a facility type
\* change and was answered 403, with a request and facilities in the store
C28_Witness ==
    /\ session.logged_in /\ ~session.is_admin
    /\ resp.op = "update_lokasi_jenis" /\ resp.code = 403
    /\ DOMAIN logistik_permintaan # {}
    /\ admin_action_log = <<>>

\* C29: an assessment or a facility is in the data of a map read exactly
\* when its active flag is not false at the time of the read (a flag never
\* set counts as active): for every map read that answers, every facility
\* with coordinates (when the facility list could be read) and every
\* assessment is listed if and only if its flag is not false.
C29_MapShowsExactlyActiveRecords ==
    [][(resp'.op \in MapOps /\ out'.op \in MapOps /\ out'.code = 200) =>
          /\ out'.failed # "data_lokasi" =>
                \A id \in DOMAIN data_lokasi :
                    (Truthy(data_lokasi[id].latitude) /\ Truthy(data_lokasi[id].longitude)) =>
                        ((\E j \in DOMAIN out'.data_lokasi :
                              out'.data_lokasi[j].id_lokasi = id)
                            <=> data_lokasi[id].is_active # "false")
          /\ \A k \in AsesmenKinds : \A i \in DOMAIN asesmen[k] :
                (\E j \in DOMAIN out'.asesmen[k] : out'.asesmen[k][j].id = i)
                    <=> asesmen[k][i].is_active # "false"]_vars

Init == InitLedger /\ InitCache /\ InitMap /\ InitInflight

\* the requests of the moderation ledger
NextLedger ==
    \/ login /\ UNCHANGED <<cacheVars, mapVars>> /\ UNCHANGED inflight
    \/ logout /\ UNCHANGED <<cacheVars, mapVars>> /\ UNCHANGED inflight
    \/ submit_permintaan /\ UNCHANGED <<cacheVars, mapVars>> /\ UNCHANGED inflight
    \/ api_update_permintaan_status /\ UNCHANGED <<cacheVars, mapVars>> /\ UNCHANGED inflight
    \/ api_set_asesmen_active /\ UNCHANGED <<cacheVars, mapVars>> /\ UNCHANGED inflight
    \/ api_deactivate_asesmen /\ UNCHANGED <<cacheVars, mapVars>> /\ UNCHANGED inflight
    \/ api_set_lokasi_active /\ UNCHANGED <<cacheVars, mapVars>> /\ UNCHANGED inflight
    \/ api_update_lokasi_jenis /\ UNCHANGED <<cacheVars, lokasi_relawan, kabkota_geojson>> /\ UNCHANGED inflight

\* the cached reads and their environment
NextCache ==
    \/ get_rekap_from_spreadsheet /\ UNCHANGED <<ledgerVars, mapVars>> /\ UNCHANGED inflight
    \/ get_logistik_keluar_grouped /\ UNCHANGED <<ledgerVars, mapVars>> /\ UNCHANGED inflight
    \/ Tick /\ UNCHANGED <<ledgerVars, mapVars>> /\ UNCHANGED inflight
    \/ EditRekap /\ UNCHANGED <<ledgerVars, mapVars>> /\ UNCHANGED inflight
    \/ EditDistribusi /\ UNCHANGED <<ledgerVars, mapVars>> /\ UNCHANGED inflight

\* the moderation ledger, the rest of the program idle
SpecLedger == Init /\ [][NextLedger]_vars

\* the cached reads, the rest of the program idle
SpecCache == Init /\ [][NextCache]_vars

\* a request that is no map or check-in request leaves no such answer
Other == out' = [op |-> "none"] /\ UNCHANGED <<cacheVars, lokasi_relawan, kabkota_geojson>>

\* check-ins over a day
NextCheckin ==
    \/ login /\ Other /\ UNCHANGED inflight
    \/ logout /\ Other /\ UNCHANGED inflight
    \/ submit_absensi /\ UNCHANGED cacheVars /\ UNCHANGED inflight
    \/ TickHalfDay /\ UNCHANGED <<ledgerVars, mapVars>> /\ UNCHANGED inflight

SpecCheckin == Init /\ [][NextCheckin]_vars

\* the map and what it shows, the clock standing
NextMap ==
    \/ login /\ Other /\ UNCHANGED inflight
    \/ logout /\ Other /\ UNCHANGED inflight
    \/ submit_permintaan /\ Other /\ UNCHANGED inflight
    \/ submit_absensi /\ UNCHANGED cacheVars /\ UNCHANGED inflight
    \/ api_refresh_map /\ UNCHANGED cacheVars /\ UNCHANGED inflight
    \/ map_view /\ UNCHANGED inflight

SpecMap == Init /\ [][NextMap]_vars


NextAsesmen ==
    \/ login /\ Other /\ UNCHANGED inflight
    \/ logout /\ Other /\ UNCHANGED inflight
    \/ submit_asesmen_kesehatan /\ UNCHANGED <<cacheVars, lokasi_relawan, kabkota_geojson>> /\ UNCHANGED inflight
    \/ submit_asesmen_pendidikan /\ UNCHANGED <<cacheVars, lokasi_relawan, kabkota_geojson>> /\ UNCHANGED inflight
    \/ submit_asesmen_psikososial /\ UNCHANGED <<cacheVars, lokasi_relawan, kabkota_geojson>> /\ UNCHANGED inflight
    \/ submit_asesmen_infrastruktur /\ UNCHANGED <<cacheVars, lokasi_relawan, kabkota_geojson>> /\ UNCHANGED inflight
    \/ submit_asesmen_wash /\ UNCHANGED <<cacheVars, lokasi_relawan, kabkota_geojson>> /\ UNCHANGED inflight
    \/ submit_asesmen_kondisi /\ UNCHANGED <<cacheVars, lokasi_relawan, kabkota_geojson>> /\ UNCHANGED inflight
    \/ submit_permintaan /\ Other /\ UNCHANGED inflight

SpecAsesmen == Init /\ [][NextAsesmen]_vars

\* facility submissions
NextLokasi ==
    \/ login /\ Other /\ UNCHANGED inflight
    \/ logout /\ Other /\ UNCHANGED inflight
    \/ submit_lokasi /\ UNCHANGED <<cacheVars, lokasi_relawan, kabkota_geojson>> /\ UNCHANGED inflight

SpecLokasi == Init /\ [][NextLokasi]_vars

\* the insert calls of check-ins and assessments
NextInsert ==
    \/ InsertLokasiRelawan /\ UNCHANGED inflight
    \/ InsertAsesmen /\ UNCHANGED inflight

SpecInsert == Init /\ [][NextInsert]_vars

\* classify calls over a day and a half
NextSnapshot ==
    \/ CekWilayah /\ UNCHANGED inflight
    \/ TickHalfDay /\ UNCHANGED <<ledgerVars, mapVars>> /\ UNCHANGED inflight

SpecSnapshot == Init /\ [][NextSnapshot]_vars

NextAnswers == AskAnswers /\ UNCHANGED inflight

SpecAnswers == Init /\ [][NextAnswers]_vars

NextIds == NextDataLokasiId /\ UNCHANGED inflight

SpecIds == Init /\ [][NextIds]_vars

\* cached reads side by side, the clock running and the sheets edited
NextRace ==
    \/ cache_miss
    \/ cache_fetch
    \/ cache_store_data
    \/ cache_store_timestamp
    \/ Tick /\ UNCHANGED <<ledgerVars, mapVars, inflight>>
    \/ EditRekap /\ UNCHANGED <<ledgerVars, mapVars, inflight>>
    \/ EditDistribusi /\ UNCHANGED <<ledgerVars, mapVars, inflight>>

SpecRace == Init /\ [][NextRace]_vars

\* status transitions side by side
NextStatusRace ==
    \/ login /\ UNCHANGED <<cacheVars, mapVars, inflight>>
    \/ submit_permintaan /\ UNCHANGED <<cacheVars, mapVars, inflight>>
    \/ status_begin
    \/ status_select_old
    \/ status_update
    \/ status_log

SpecStatusRace == Init /\ [][NextStatusRace]_vars

\* facility inserts side by side
NextLokasiRace ==
    \/ insert_lokasi_begin
    \/ insert_lokasi_next_id
    \/ insert_lokasi_execute

SpecLokasiRace == Init /\ [][NextLokasiRace]_vars

\* the active toggles of the moderators and the reads of the map
NextVisible ==
    \/ login /\ UNCHANGED <<cacheVars, mapVars, inflight>>
    \/ api_set_asesmen_active /\ UNCHANGED <<cacheVars, mapVars, inflight>>
    \/ api_set_lokasi_active /\ UNCHANGED <<cacheVars, mapVars, inflight>>
    \/ api_refresh_map /\ UNCHANGED <<cacheVars, inflight>>

SpecVisible == Init /\ [][NextVisible]_vars

\* the facility toggle of the moderators and the check-ins
NextMatch ==
    \/ login /\ UNCHANGED <<cacheVars, mapVars, inflight>>
    \/ nOk < MaxToggles /\ api_set_lokasi_active /\ UNCHANGED <<cacheVars, mapVars, inflight>>
    \/ submit_absensi /\ UNCHANGED <<cacheVars, inflight>>

SpecMatch == Init /\ [][NextMatch]_vars

NextNearest == NearestSearch /\ UNCHANGED inflight

SpecNearest == Init /\ [][NextNearest]_vars

NextPolygon ==
    \/ ReadRing /\ UNCHANGED inflight
    \/ PointInPolygon /\ UNCHANGED inflight

SpecPolygon == Init /\ [][NextPolygon]_vars

NextClassify ==
    \/ WriteDataset /\ UNCHANGED inflight
    \/ CekWilayah /\ UNCHANGED inflight

SpecClassify == Init /\ [][NextClassify]_vars

====
